---- MODULE Spec2Model ----
(***************************************************************************)
(* Upload / quota ledger / processing pipeline of the video processor.     *)
(* Handlers and processing runs are cut at the awaits where another        *)
(* request or run can change what they go on to read: the usage lookup of  *)
(* getOrCreateUsage and its create, the two limit checks, the lookup and   *)
(* the delete of deleteVideo, every ffmpeg / ffprobe invocation and the    *)
(* status writes around them.  The database calls that follow one another  *)
(* without a read in between are one step.                                 *)
(***************************************************************************)
EXTENDS Integers, Sequences, FiniteSets, TLC

\* ------------------------------------------------------------ bounds ----
MaxVideos == 1
MaxReqs == 2
MaxMonth == 2
\* videos in the specification of overlapping uploads
MaxRaceVideos == 2
\* bytes of the largest stored file in the specification of streaming
MaxFile == 12
\* random draws of a key generator (0..MaxDraw)
MaxDraw == 2
\* ledger mutations in flight in the specification of the ledger
MaxCalls == 3

\* ------------------------------------------------- program constants ----
\* BigInt(1024 * 1024 * 1024), bytes per GB
GiB == 1073741824

Orgs == {"orgA", "orgB"}
VideoIds == 1..MaxVideos
Reqs == 1..MaxReqs
Months == 1..MaxMonth

\* const resolutions = ['720p', '1080p']
resolutions == <<"720p", "1080p">>

PLAN_LIMITS ==
  [free       |-> [videosPerMonth |-> 10,   minutesPerMonth |-> 60,   storageGB |-> 5,   apiCallsPerMonth |-> 1000],
   starter    |-> [videosPerMonth |-> 100,  minutesPerMonth |-> 600,  storageGB |-> 50,  apiCallsPerMonth |-> 10000],
   pro        |-> [videosPerMonth |-> 1000, minutesPerMonth |-> 6000, storageGB |-> 500, apiCallsPerMonth |-> 100000],
   enterprise |-> [videosPerMonth |-> -1,   minutesPerMonth |-> -1,   storageGB |-> -1,  apiCallsPerMonth |-> -1]]

\* names every object literal answers to besides its own properties
ObjectPrototype == {"constructor", "toString", "valueOf", "hasOwnProperty", "__proto__"}

\* the value of a property an object does not have; it stands apart from
\* every limit, the -1 of an unlimited plan included
undefined == -2

\* process.env.ALLOWED_FORMATS || 'mp4,avi,mov,mkv,webm'
allowedFormats == {"mp4", "avi", "mov", "mkv", "webm"}

\* ------------------------------------------------------------ inputs ----
\* extensions of the uploaded file name, as path.extname returns them
\* (without the dot)
Exts == {"MKV", "exe", "EXE"}
\* req.file.size, bytes
FileSizes == {1}
\* size of an encoded output file, bytes
OutSizes == {3}
\* metadata.format.duration in milliseconds (ffprobe reports fractional
\* seconds): 90.5 s
Durations == {90500}

\* ------------------------------------------------ BigInt byte counts ----
\* usage.storageUsed is a BIGINT; 5 GB does not fit TLC's 32-bit
\* integers, so a byte count n is kept exactly as g * GiB + b, 0 <= b < GiB.
BigOf(n) == [g |-> n \div GiB, b |-> n % GiB]
BigAdd(x, y) == [g |-> x.g + y.g + ((x.b + y.b) \div GiB), b |-> (x.b + y.b) % GiB]
BigSub(x, y) == [g |-> x.g - y.g + ((x.b - y.b) \div GiB), b |-> (x.b - y.b) % GiB]
BigGT(x, y) == x.g > y.g \/ (x.g = y.g /\ x.b > y.b)
BigZero == BigOf(0)

\* String.prototype.toLowerCase on the extensions above
toLowerCase(s) ==
  CASE s = "MKV" -> "mkv"
    [] s = "EXE" -> "exe"
    [] s = "MP4" -> "mp4"
    [] OTHER -> s

\* Math.floor of a duration in seconds (durations are kept in ms)
MathFloor(d) == (d \div 1000) * 1000

VARIABLES
  month,       \* UsageService.getCurrentMonth(): the calendar month
  orgPlan,     \* organizations.plan, per organization
  usage,       \* table "usage": set of rows
  videos,      \* table "videos": id -> row, for the ids that exist
  created,     \* number of video ids handed out so far
  transcoded,  \* table "transcoded_videos": set of rows
  files,       \* files on disk: <<videoId, "orig" | "thumb" | resolution>>
  slots,       \* HTTP requests in flight, one per slot
  run,         \* processVideo runs, one per video id
  usage0,      \* the usage table at the start (history variable)
  call         \* a function called on its own: its input and its result

vars == <<month, orgPlan, usage, videos, created, transcoded, files, slots, run, usage0, call>>

\* ------------------------------------------------------------ tables ----
\* a fresh usage row: a new id, every counter has its column DEFAULT 0.  The
\* id (a uuid in the program) is the key and the number of the row among
\* the rows of that key.
NewUsage(U, o, m) ==
  [id |-> <<o, m, Cardinality({u \in U : u.organizationId = o /\ u.month = m}) + 1>>,
   organizationId |-> o, month |-> m,
   videosUploaded |-> 0, minutesProcessed |-> 0, storageUsed |-> BigZero, apiCalls |-> 0]

\* prisma.usage.findUnique({where: {organizationId_month}}): the matching rows
findUsage(U, o, m) == {u \in U : u.organizationId = o /\ u.month = m}

\* variant: the usage table without its unique index
NoUniqueIndex(U, o, m) == FALSE

\* prisma.usage.create under the unique index (organization_id, month):
\* TRUE when the insert is refused
UniqueViolation(U, o, m) == findUsage(U, o, m) # {}

\* prisma.usage.update({where: {id}, data}) with atomic increments
usageUpdate(U, id, dVideos, dMinutes, dStorage, neg) ==
  {IF u.id = id
     THEN [u EXCEPT !.videosUploaded = @ + dVideos,
                    !.minutesProcessed = @ + dMinutes,
                    !.storageUsed = IF neg THEN BigSub(@, dStorage) ELSE BigAdd(@, dStorage)]
     ELSE u : u \in U}

\* trackVideoUpload's update: videosUploaded + 1, storageUsed + fileSize,
\* minutesProcessed + duration / 60 only when duration is truthy.
\* minutesProcessed is kept in units of 1/60000 minute (one ms of video).
trackVideoUploadData(U, id, fileSize, duration) ==
  usageUpdate(U, id, 1, IF duration # 0 THEN duration ELSE 0, BigOf(fileSize), FALSE)

\* trackVideoDeletion's update: storageUsed - fileSize
trackVideoDeletionData(U, id, fileSize) ==
  usageUpdate(U, id, 0, 0, BigOf(fileSize), TRUE)

\* variant: the lookup by id alone
findFirstById(id, o) == {v \in DOMAIN videos : v = id}

\* prisma.video.findFirst({where: {id, organizationId}}): ids found (0 or 1)
findFirst(id, o) ==
  {v \in DOMAIN videos : v = id /\ videos[v].organizationId = o}

\* video.transcodedVideos (include) / rows of one video
rowsOf(T, v) == {t \in T : t.videoId = v}

RECURSIVE SumSizes(_)
SumSizes(S) ==
  IF S = {} THEN 0
  ELSE LET t == CHOOSE x \in S : TRUE IN t.fileSize + SumSizes(S \ {t})

\* ------------------------------------------------------------- slots ----
Idle ==
  [pc |-> "idle", kind |-> "none", org |-> "-", id |-> 0, size |-> 0, ext |-> "",
   tmp |-> FALSE, m |-> 0, total |-> 0, status |-> 0, reason |-> "", body |-> {}]

\* probed, tracked, encFailed and threw are history: both probes succeeded,
\* the ledger write of the run succeeded, the resolutions whose encode
\* failed, a step of the run threw into one of the two catch blocks
NoRun ==
  [pc |-> "none", org |-> "-", m |-> 0, dur |-> 0, res |-> 0,
   probed |-> FALSE, tracked |-> FALSE, encFailed |-> {}, threw |-> FALSE]

\* res.status(st).json(...): the request is answered
Respond(s, st, reason, body) ==
  [s EXCEPT !.pc = "done", !.status = st, !.reason = reason, !.body = body,
            !.size = 0, !.ext = "", !.m = 0, !.total = 0]

\* a usage row of month 1 as earlier uploads and deletions leave it
UsageRow(o, n, storage) ==
  [id |-> <<o, 1, 1>>, organizationId |-> o, month |-> 1, videosUploaded |-> n,
   minutesProcessed |-> 0, storageUsed |-> storage, apiCalls |-> 0]

\* no function is called on its own
NoCall == [fn |-> "none"]

\* the usage tables the model starts from: no row yet; the free
\* organization one upload and one byte short of its limits and the
\* enterprise organization far beyond every finite limit; the free
\* organization at its upload limit; the free organization at its storage
\* limit
InitUsages ==
  { {},
    { UsageRow("orgA", 9, BigSub([g |-> 5, b |-> 0], BigOf(1))),
      UsageRow("orgB", 5000, [g |-> 600, b |-> 0]) },
    { UsageRow("orgA", 10, BigZero) },
    { UsageRow("orgA", 0, [g |-> 5, b |-> 0]) } }

Init ==
  /\ month = 1
  /\ orgPlan = [o \in Orgs |-> IF o = "orgA" THEN "free" ELSE "enterprise"]
  /\ usage \in InitUsages
  /\ usage0 = usage
  /\ videos = <<>>
  /\ created = 0
  /\ transcoded = {}
  /\ files = {}
  /\ slots = [r \in Reqs |-> Idle]
  /\ run = [v \in VideoIds |-> NoRun]
  /\ call = NoCall

\* the calendar month advances
Tick ==
  /\ month < MaxMonth
  /\ month' = month + 1
  /\ UNCHANGED <<orgPlan, usage, videos, created, transcoded, files, slots, run, usage0, call>>

\* the client has its answer; the slot is free for the next request
Release(r) ==
  /\ slots[r].pc = "done"
  /\ slots' = [slots EXCEPT ![r] = Idle]
  /\ UNCHANGED <<month, orgPlan, usage, videos, created, transcoded, files, run, usage0, call>>

\* ------------------------------------------------- upload handler -------
\* variant: a filter that lets every named extension through
fileFilterOff(ext) == ext # ""

\* fileFilter: the extension, lower-cased, must be in the allow-list
fileFilter(ext) == toLowerCase(ext) \in allowedFormats

\* uploads that are in flight and have not yet created their Video row
PendingUploads ==
  {q \in Reqs : slots[q].kind = "upload" /\ slots[q].pc \notin {"idle", "done"} /\ slots[q].id = 0}

\* POST /upload, upload.single('video'): a refused file never reaches the
\* handler (express answers the error); an accepted one is written to the
\* upload directory and uploadVideo starts.  Uploads start while a video id
\* (a place in run) is left for them.
uploadStart(r, o, ext, size) ==
  /\ slots[r].pc = "idle"
  /\ created + Cardinality(PendingUploads) < Cardinality(DOMAIN run)
  /\ slots' = [slots EXCEPT ![r] =
       IF fileFilter(ext)
         THEN [Idle EXCEPT !.pc = "canUpload", !.kind = "upload", !.org = o,
                           !.ext = ext, !.size = size, !.tmp = TRUE]
         ELSE [Respond([Idle EXCEPT !.kind = "upload", !.org = o], 500, "Invalid file format", {})
                 EXCEPT !.ext = ext]]
  /\ UNCHANGED <<month, orgPlan, usage, videos, created, transcoded, files, run, usage0, call>>

\* variant: the count check with > for >=
canUploadVideoOneMore(limits, u) ==
  IF u.videosUploaded > limits.videosPerMonth
    THEN [allowed |-> FALSE, reason |-> "Monthly video upload limit reached"]
    ELSE [allowed |-> TRUE, reason |-> ""]

\* the comparison of canUploadVideo on the usage row it read (the reason
\* carries the limit in the program: "... (10 videos)"); >= with undefined
\* is false
canUploadVideo(limits, u) ==
  IF limits.videosPerMonth # undefined /\ u.videosUploaded >= limits.videosPerMonth
    THEN [allowed |-> FALSE, reason |-> "Monthly video upload limit reached"]
    ELSE [allowed |-> TRUE, reason |-> ""]

\* variant: the storage check with >= for >
hasStorageCapacityBelow(limits, u, additionalBytes) ==
  LET maxStorageBytes == [g |-> limits.storageGB, b |-> 0]
      newTotal == BigAdd(u.storageUsed, BigOf(additionalBytes))
  IN IF limits.storageGB = undefined
       THEN [allowed |-> FALSE, reason |-> "", threw |-> TRUE]
     ELSE IF BigGT(newTotal, maxStorageBytes) \/ newTotal = maxStorageBytes
       THEN [allowed |-> FALSE, reason |-> "Storage limit exceeded", threw |-> FALSE]
       ELSE [allowed |-> TRUE, reason |-> "", threw |-> FALSE]

\* the comparison of hasStorageCapacity on the usage row it read;
\* BigInt(limits.storageGB) throws a TypeError on undefined
hasStorageCapacity(limits, u, additionalBytes) ==
  LET maxStorageBytes == [g |-> limits.storageGB, b |-> 0]
      newTotal == BigAdd(u.storageUsed, BigOf(additionalBytes))
  IN IF limits.storageGB = undefined
       THEN [allowed |-> FALSE, reason |-> "", threw |-> TRUE]
     ELSE IF BigGT(newTotal, maxStorageBytes)
       THEN [allowed |-> FALSE, reason |-> "Storage limit exceeded", threw |-> FALSE]
       ELSE [allowed |-> TRUE, reason |-> "", threw |-> FALSE]

\* if (!limits): PLAN_LIMITS[org.plan] is an own property of the object
\* literal or a member it inherits
planFound(plan) == plan \in DOMAIN PLAN_LIMITS \cup ObjectPrototype

\* limits = PLAN_LIMITS[org.plan] when it is found: the plan's limits, or an
\* inherited member, which has none of the limits' properties
planLimits(plan) ==
  IF plan \in DOMAIN PLAN_LIMITS THEN PLAN_LIMITS[plan]
  ELSE [videosPerMonth |-> undefined, minutesPerMonth |-> undefined,
        storageGB |-> undefined, apiCallsPerMonth |-> undefined]

\* the organization and plan lookup both checks start with: "" when resolved
resolveOrg(o) ==
  IF o \notin DOMAIN orgPlan THEN "Organization not found"
  ELSE IF ~planFound(orgPlan[o]) THEN "Invalid plan"
  ELSE ""

\* variant: the refusal that leaves the uploaded file in place
uploadRejectKeepFile(s, reason) == Respond(s, 429, reason, {})

\* if (!check.allowed): the uploaded file is unlinked and the answer is 429
\* with the reason
uploadReject(s, reason) == Respond([s EXCEPT !.tmp = FALSE], 429, reason, {})

\* variant: a check that takes the upload's place in the count when it
\* allows
uploadCanUploadReserve(r) ==
  LET s == slots[r]
      o == s.org
      found == findUsage(usage, o, month)
      check == canUploadVideo(planLimits(orgPlan[o]), CHOOSE u \in found : TRUE)
  IN /\ s.pc = "canUpload"
     /\ slots' = [slots EXCEPT ![r] =
          IF resolveOrg(o) # "" THEN uploadReject(s, resolveOrg(o))
          ELSE IF planLimits(orgPlan[o]).videosPerMonth = -1 THEN [s EXCEPT !.pc = "hasStorage"]
          ELSE IF found = {} THEN [s EXCEPT !.pc = "canUploadCreate", !.m = month]
          ELSE IF check.allowed THEN [s EXCEPT !.pc = "hasStorage"]
          ELSE uploadReject(s, check.reason)]
     /\ usage' = IF resolveOrg(o) = "" /\ planLimits(orgPlan[o]).videosPerMonth # -1
                     /\ found # {} /\ check.allowed
                   THEN usageUpdate(usage, (CHOOSE u \in found : TRUE).id, 1, 0, BigZero, FALSE)
                   ELSE usage
     /\ UNCHANGED <<month, orgPlan, videos, created, transcoded, files, run, usage0, call>>

\* uploadVideo: await UsageService.canUploadVideo, up to its usage lookup
uploadCanUpload(r) ==
  LET s == slots[r]
      o == s.org
      found == findUsage(usage, o, month)
      check == canUploadVideo(planLimits(orgPlan[o]), CHOOSE u \in found : TRUE)
  IN /\ s.pc = "canUpload"
     /\ slots' = [slots EXCEPT ![r] =
          IF resolveOrg(o) # "" THEN uploadReject(s, resolveOrg(o))
          ELSE IF planLimits(orgPlan[o]).videosPerMonth = -1 THEN [s EXCEPT !.pc = "hasStorage"]
          ELSE IF found = {} THEN [s EXCEPT !.pc = "canUploadCreate", !.m = month]
          ELSE IF check.allowed THEN [s EXCEPT !.pc = "hasStorage"]
          ELSE uploadReject(s, check.reason)]
     /\ UNCHANGED <<month, orgPlan, usage, videos, created, transcoded, files, run, usage0, call>>

\* canUploadVideo found no usage row: prisma.usage.create, then the check;
\* a refused create throws into uploadVideo's catch (500)
uploadCanUploadCreate(r) ==
  LET s == slots[r]
      o == s.org
      row == NewUsage(usage, o, s.m)
      check == canUploadVideo(planLimits(orgPlan[o]), row)
  IN /\ s.pc = "canUploadCreate"
     /\ IF UniqueViolation(usage, o, s.m)
          THEN /\ slots' = [slots EXCEPT ![r] = Respond(s, 500, "Failed to upload video", {})]
               /\ UNCHANGED usage
          ELSE /\ usage' = usage \cup {row}
               /\ slots' = [slots EXCEPT ![r] =
                    IF check.allowed THEN [s EXCEPT !.pc = "hasStorage", !.m = 0]
                    ELSE uploadReject(s, check.reason)]
     /\ UNCHANGED <<month, orgPlan, videos, created, transcoded, files, run, usage0, call>>

\* variant: the handler that answers without starting processVideo
uploadAcceptNoRun(r, s, U) ==
  LET id == created + 1
      row == [organizationId |-> s.org, originalExt |-> s.ext, fileSize |-> s.size,
              status |-> "pending", duration |-> 0, thumbnailPath |-> FALSE, errorMessage |-> ""]
      found == findUsage(U, s.org, month)
      t == [s EXCEPT !.id = id, !.tmp = FALSE]
  IN /\ created' = id
     /\ videos' = [v \in DOMAIN videos \cup {id} |-> IF v = id THEN row ELSE videos[v]]
     /\ files' = files \cup {<<id, "orig">>}
     /\ UNCHANGED run
     /\ IF found = {}
          THEN /\ usage' = U
               /\ slots' = [slots EXCEPT ![r] = [t EXCEPT !.pc = "trackCreate", !.m = month]]
          ELSE /\ usage' = trackVideoUploadData(U, (CHOOSE u \in found : TRUE).id, s.size, 0)
               /\ slots' = [slots EXCEPT ![r] = Respond(t, 201, "pending", {id})]

\* uploadVideo after both checks passed, U being the usage table by then:
\* prisma.video.create with status 'pending' (the uploaded file is the
\* video's filePath from here on), then trackVideoUpload(org, size) up to
\* its update when the usage row exists; then processVideo is started (it
\* runs up to its first await, the thumbnail invocation) and the answer is
\* 201 with status 'pending'
uploadAccept(r, s, U) ==
  LET id == created + 1
      row == [organizationId |-> s.org, originalExt |-> s.ext, fileSize |-> s.size,
              status |-> "pending", duration |-> 0, thumbnailPath |-> FALSE, errorMessage |-> ""]
      found == findUsage(U, s.org, month)
      t == [s EXCEPT !.id = id, !.tmp = FALSE]
  IN /\ created' = id
     /\ videos' = [v \in DOMAIN videos \cup {id} |-> IF v = id THEN row ELSE videos[v]]
     /\ files' = files \cup {<<id, "orig">>}
     /\ IF found = {}
          THEN /\ usage' = U
               /\ slots' = [slots EXCEPT ![r] = [t EXCEPT !.pc = "trackCreate", !.m = month]]
               /\ UNCHANGED run
          ELSE /\ usage' = trackVideoUploadData(U, (CHOOSE u \in found : TRUE).id, s.size, 0)
               /\ run' = [run EXCEPT ![id] = [NoRun EXCEPT !.pc = "thumb"]]
               /\ slots' = [slots EXCEPT ![r] = Respond(t, 201, "pending", {id})]

\* uploadVideo: await UsageService.hasStorageCapacity, up to its usage
\* lookup; when it allows, the handler goes on
uploadHasStorage(r) ==
  LET s == slots[r]
      o == s.org
      found == findUsage(usage, o, month)
      check == hasStorageCapacity(planLimits(orgPlan[o]), CHOOSE u \in found : TRUE, s.size)
  IN /\ s.pc = "hasStorage"
     /\ IF resolveOrg(o) = "" /\ (planLimits(orgPlan[o]).storageGB = -1 \/ (found # {} /\ check.allowed))
          THEN uploadAccept(r, s, usage)
          ELSE /\ slots' = [slots EXCEPT ![r] =
                    IF resolveOrg(o) # "" THEN uploadReject(s, resolveOrg(o))
                    ELSE IF found = {} THEN [s EXCEPT !.pc = "hasStorageCreate", !.m = month]
                    ELSE IF check.threw THEN Respond(s, 500, "Failed to upload video", {})
                    ELSE uploadReject(s, check.reason)]
               /\ UNCHANGED <<usage, videos, created, files, run>>
     /\ UNCHANGED <<month, orgPlan, transcoded, usage0, call>>

\* hasStorageCapacity found no usage row: prisma.usage.create, then the
\* check; a refused create, or the check, throws into uploadVideo's catch
\* (500)
uploadHasStorageCreate(r) ==
  LET s == slots[r]
      o == s.org
      row == NewUsage(usage, o, s.m)
      check == hasStorageCapacity(planLimits(orgPlan[o]), row, s.size)
  IN /\ s.pc = "hasStorageCreate"
     /\ IF UniqueViolation(usage, o, s.m)
          THEN /\ slots' = [slots EXCEPT ![r] = Respond(s, 500, "Failed to upload video", {})]
               /\ UNCHANGED <<usage, videos, created, files, run>>
          ELSE IF check.allowed
            THEN uploadAccept(r, [s EXCEPT !.m = 0], usage \cup {row})
            ELSE /\ usage' = usage \cup {row}
                 /\ slots' = [slots EXCEPT ![r] =
                      IF check.threw THEN Respond(s, 500, "Failed to upload video", {})
                      ELSE uploadReject(s, check.reason)]
                 /\ UNCHANGED <<videos, created, files, run>>
     /\ UNCHANGED <<month, orgPlan, transcoded, usage0, call>>

\* trackVideoUpload found no usage row: create it, then the update, the
\* start of processVideo and the 201; a refused create throws into
\* uploadVideo's catch (500) after the Video row was created
uploadTrackCreate(r) ==
  LET s == slots[r]
      row == NewUsage(usage, s.org, s.m)
  IN /\ s.pc = "trackCreate"
     /\ IF UniqueViolation(usage, s.org, s.m)
          THEN /\ slots' = [slots EXCEPT ![r] = Respond(s, 500, "Failed to upload video", {})]
               /\ UNCHANGED <<usage, run>>
          ELSE /\ usage' = trackVideoUploadData(usage \cup {row}, row.id, s.size, 0)
               /\ run' = [run EXCEPT ![s.id] = [NoRun EXCEPT !.pc = "thumb"]]
               /\ slots' = [slots EXCEPT ![r] = Respond(s, 201, "pending", {s.id})]
     /\ UNCHANGED <<month, orgPlan, videos, created, transcoded, files, usage0, call>>

\* ------------------------------------------------- processing run -------
\* prisma.video.update({where: {id}}) throws when the row is gone
videoExists(v) == v \in DOMAIN videos

\* the run is over: processVideo's promise resolved ("ended") or rejected
\* into the .catch of uploadVideo that logs it ("rejected")
runOver(rn, how) == [rn EXCEPT !.pc = how, !.m = 0, !.dur = 0, !.res = 0]

\* variant: processVideo called without a .catch
processVideoUnhandled == "unhandled"

\* this.processVideo(...).catch(error => console.error(...)): a rejection
\* of the run's promise is handled there
processVideoCatch == "rejected"

\* catch of processVideo: status 'error' with the message; when that update
\* throws too (row gone) the promise rejects
catchProcessVideo(v, msg) ==
  IF videoExists(v)
    THEN /\ videos' = [videos EXCEPT ![v] = [@ EXCEPT !.status = "error", !.errorMessage = msg]]
         /\ run' = [run EXCEPT ![v] = runOver([@ EXCEPT !.threw = TRUE], "ended")]
    ELSE /\ UNCHANGED videos
         /\ run' = [run EXCEPT ![v] = runOver([@ EXCEPT !.threw = TRUE], processVideoCatch)]

\* variant: a catch that only logs and leaves the status as it is
catchTranscodeSilent(v, msg) ==
  /\ UNCHANGED videos
  /\ run' = [run EXCEPT ![v] = runOver([@ EXCEPT !.threw = TRUE], "ended")]

\* catch of transcodeToMultipleResolutions: status 'failed' with the
\* message, the error is swallowed; when that update throws too the error
\* reaches the catch of processVideo
catchTranscode(v, msg) ==
  IF videoExists(v)
    THEN /\ videos' = [videos EXCEPT ![v] = [@ EXCEPT !.status = "failed", !.errorMessage = msg]]
         /\ run' = [run EXCEPT ![v] = runOver([@ EXCEPT !.threw = TRUE], "ended")]
    ELSE catchProcessVideo(v, "Record to update not found")

\* StreamingService.generateThumbnail returns: ffmpeg 'end' or 'error'
runThumbnail(v, ok) ==
  /\ run[v].pc = "thumb"
  /\ IF ok
       THEN /\ run' = [run EXCEPT ![v] = [@ EXCEPT !.pc = "probe"]]
            /\ files' = files \cup {<<v, "thumb">>}
            /\ UNCHANGED videos
       ELSE /\ catchProcessVideo(v, "ffmpeg exited with an error")
            /\ UNCHANGED files
  /\ UNCHANGED <<month, orgPlan, usage, created, transcoded, slots, usage0, call>>

\* StreamingService.getVideoMetadata returns, then updateVideoStreamingInfo:
\* thumbnail path, floored duration and status 'completed' in one update
runStreamingInfo(v, ok, d) ==
  /\ run[v].pc = "probe"
  /\ IF ok /\ videoExists(v)
       THEN /\ videos' = [videos EXCEPT ![v] =
                 [@ EXCEPT !.thumbnailPath = TRUE, !.duration = MathFloor(d), !.status = "completed"]]
            /\ run' = [run EXCEPT ![v] = [@ EXCEPT !.pc = "setProcessing"]]
       ELSE catchProcessVideo(v, IF ok THEN "Record to update not found" ELSE "ffprobe exited with an error")
  /\ UNCHANGED <<month, orgPlan, usage, created, transcoded, files, slots, usage0, call>>

\* transcodeToMultipleResolutions: video.update status 'processing', then
\* ffprobe is started
runSetProcessing(v) ==
  /\ run[v].pc = "setProcessing"
  /\ IF videoExists(v)
       THEN /\ videos' = [videos EXCEPT ![v] = [@ EXCEPT !.status = "processing"]]
            /\ run' = [run EXCEPT ![v] = [@ EXCEPT !.pc = "probe2"]]
       ELSE catchTranscode(v, "Record to update not found")
  /\ UNCHANGED <<month, orgPlan, usage, created, transcoded, files, slots, usage0, call>>

\* TranscodeService.getVideoMetadata returns; video.update duration; the
\* video is read back for its organizationId
runDuration(v, ok, d) ==
  /\ run[v].pc = "probe2"
  /\ IF ok /\ videoExists(v)
       THEN /\ videos' = [videos EXCEPT ![v] = [@ EXCEPT !.duration = d]]
            /\ run' = [run EXCEPT ![v] =
                 [@ EXCEPT !.pc = "track", !.org = videos[v].organizationId, !.dur = d, !.probed = TRUE]]
       ELSE catchTranscode(v, IF ok THEN "Record to update not found" ELSE "ffprobe exited with an error")
  /\ UNCHANGED <<month, orgPlan, usage, created, transcoded, files, slots, usage0, call>>

\* the transcoded_videos rows of (videoId, resolution)
rowsAt(T, v, res) == {t \in T : t.videoId = v /\ t.resolution = res}

\* variant: the update that reaches every row of the video
transcodedUpdateAll(T, v, res, size, status) ==
  {IF t.videoId = v
     THEN [t EXCEPT !.status = status, !.fileSize = IF status = "completed" THEN size ELSE @]
     ELSE t : t \in T}

\* prisma.transcodedVideo.update({where: {videoId_resolution}, data})
transcodedUpdate(T, v, res, size, status) ==
  {IF t.videoId = v /\ t.resolution = res
     THEN [t EXCEPT !.status = status, !.fileSize = IF status = "completed" THEN size ELSE @]
     ELSE t : t \in T}

\* transcodeVideo up to the ffmpeg run: prisma.transcodedVideo.upsert with
\* status 'processing'.  The create needs the video row (foreign key); when
\* it is refused transcodeVideo's catch updates a row that does not exist
\* and that error leaves transcodeVideo.
upsertOk(T, v, res) == rowsAt(T, v, res) # {} \/ videoExists(v)

\* variant: the rows of every resolution are upserted at once, as a loop
\* that starts all encodes together would
upsertProcessingAll(T, v, res) ==
  T \cup {[videoId |-> v, resolution |-> resolutions[i], fileSize |-> 0, status |-> "processing"] :
            i \in {j \in 1..Len(resolutions) : rowsAt(T, v, resolutions[j]) = {}}}
upsertProcessing(T, v, res) ==
  IF rowsAt(T, v, res) # {}
    THEN transcodedUpdate(T, v, res, 0, "processing")
    ELSE T \cup {[videoId |-> v, resolution |-> res, fileSize |-> 0, status |-> "processing"]}

\* the run from the ledger write on: the loop over the resolutions starts
\* with the upsert of the first one
runStartLoop(v) ==
  IF upsertOk(transcoded, v, resolutions[1])
    THEN /\ transcoded' = upsertProcessing(transcoded, v, resolutions[1])
         /\ run' = [run EXCEPT ![v] =
              [@ EXCEPT !.pc = "encode", !.res = 1, !.dur = 0, !.m = 0, !.tracked = TRUE]]
         /\ UNCHANGED videos
    ELSE /\ catchTranscode(v, "Record to update not found")
         /\ UNCHANGED transcoded

\* UsageService.trackVideoUpload(video.organizationId, BigInt(0), duration),
\* up to its update when the usage row exists
runTrack(v) ==
  LET found == findUsage(usage, run[v].org, month)
  IN /\ run[v].pc = "track"
     /\ IF found = {}
          THEN /\ run' = [run EXCEPT ![v] = [@ EXCEPT !.pc = "trackCreate", !.m = month]]
               /\ UNCHANGED <<usage, videos, transcoded>>
          ELSE /\ usage' = trackVideoUploadData(usage, (CHOOSE u \in found : TRUE).id, 0, run[v].dur)
               /\ runStartLoop(v)
     /\ UNCHANGED <<month, orgPlan, created, files, slots, usage0, call>>

\* trackVideoUpload found no usage row: create it, then the update; a
\* refused create throws into the catch of transcodeToMultipleResolutions
runTrackCreate(v) ==
  LET row == NewUsage(usage, run[v].org, run[v].m)
  IN /\ run[v].pc = "trackCreate"
     /\ IF UniqueViolation(usage, run[v].org, run[v].m)
          THEN /\ catchTranscode(v, "Unique constraint failed")
               /\ UNCHANGED <<usage, transcoded>>
          ELSE /\ usage' = trackVideoUploadData(usage \cup {row}, row.id, 0, run[v].dur)
               /\ runStartLoop(v)
     /\ UNCHANGED <<month, orgPlan, created, files, slots, usage0, call>>

\* transcodeVideo: the ffmpeg run ends ('end': output written, stat, row
\* completed with its size) or fails ('error': row failed); either update
\* throws out of transcodeVideo when the row is gone.  Then the loop goes
\* on: the upsert of the next resolution, or video.update status
\* 'completed' after the last one.
runEncode(v, ok, size) ==
  LET i == run[v].res
      res == resolutions[i]
      T == transcodedUpdate(transcoded, v, res, size, IF ok THEN "completed" ELSE "failed")
      failed == IF ok THEN run[v].encFailed ELSE run[v].encFailed \cup {res}
  IN /\ run[v].pc = "encode"
     /\ files' = IF ok THEN files \cup {<<v, res>>} ELSE files
     /\ IF rowsAt(transcoded, v, res) = {}
          THEN /\ catchTranscode(v, "Record to update not found")
               /\ UNCHANGED transcoded
          ELSE IF i < Len(resolutions)
            THEN IF upsertOk(T, v, resolutions[i + 1])
                   THEN /\ transcoded' = upsertProcessing(T, v, resolutions[i + 1])
                        /\ run' = [run EXCEPT ![v] = [@ EXCEPT !.res = i + 1, !.encFailed = failed]]
                        /\ UNCHANGED videos
                   ELSE /\ transcoded' = T
                        /\ catchTranscode(v, "Record to update not found")
            ELSE /\ transcoded' = T
                 /\ IF videoExists(v)
                      THEN /\ videos' = [videos EXCEPT ![v] = [@ EXCEPT !.status = "completed"]]
                           /\ run' = [run EXCEPT ![v] = runOver([@ EXCEPT !.encFailed = failed], "ended")]
                      ELSE catchTranscode(v, "Record to update not found")
     /\ UNCHANGED <<month, orgPlan, usage, created, slots, usage0, call>>

\* ------------------------------------------------- delete handler -------
\* deleteVideo up to prisma.video.delete: findFirst scoped to the caller's
\* organization (404 when null), the total size of the row and its
\* transcodedVideos, and the files unlinked that exist
deleteStart(r, o, id) ==
  LET rows == rowsOf(transcoded, id)
  IN /\ slots[r].pc = "idle"
     /\ IF findFirst(id, o) = {}
          THEN /\ slots' = [slots EXCEPT ![r] =
                    Respond([Idle EXCEPT !.kind = "delete", !.org = o, !.id = id], 404, "Video not found", {})]
               /\ UNCHANGED files
          ELSE /\ slots' = [slots EXCEPT ![r] =
                    [Idle EXCEPT !.pc = "delete", !.kind = "delete", !.org = o, !.id = id,
                                 !.total = videos[id].fileSize + SumSizes(rows)]]
               /\ files' = files \ ({<<id, "orig">>} \cup {<<id, t.resolution>> : t \in rows})
     /\ UNCHANGED <<month, orgPlan, usage, videos, created, transcoded, run, usage0, call>>

\* prisma.video.delete({where: {id}}) with ON DELETE CASCADE for the
\* transcoded_videos rows (throws, 500, when the row is already gone), then
\* UsageService.trackVideoDeletion(org, totalSize) up to its update when the
\* usage row exists, and the 200 answer
deleteRow(r) ==
  LET s == slots[r]
      found == findUsage(usage, s.org, month)
  IN /\ s.pc = "delete"
     /\ IF ~videoExists(s.id)
          THEN /\ slots' = [slots EXCEPT ![r] = Respond(s, 500, "Failed to delete video", {})]
               /\ UNCHANGED <<videos, transcoded, usage>>
          ELSE /\ videos' = [v \in DOMAIN videos \ {s.id} |-> videos[v]]
               /\ transcoded' = transcoded \ rowsOf(transcoded, s.id)
               /\ IF found = {}
                    THEN /\ slots' = [slots EXCEPT ![r] = [s EXCEPT !.pc = "trackDeletionCreate", !.m = month]]
                         /\ UNCHANGED usage
                    ELSE /\ usage' = trackVideoDeletionData(usage, (CHOOSE u \in found : TRUE).id, s.total)
                         /\ slots' = [slots EXCEPT ![r] = Respond(s, 200, "Video deleted successfully", {})]
     /\ UNCHANGED <<month, orgPlan, created, files, run, usage0, call>>

\* trackVideoDeletion found no usage row: create it, then the update; a
\* refused create throws into deleteVideo's catch (500)
deleteTrackCreate(r) ==
  LET s == slots[r]
      row == NewUsage(usage, s.org, s.m)
  IN /\ s.pc = "trackDeletionCreate"
     /\ IF UniqueViolation(usage, s.org, s.m)
          THEN /\ slots' = [slots EXCEPT ![r] = Respond(s, 500, "Failed to delete video", {})]
               /\ UNCHANGED usage
          ELSE /\ usage' = trackVideoDeletionData(usage \cup {row}, row.id, s.total)
               /\ slots' = [slots EXCEPT ![r] = Respond(s, 200, "Video deleted successfully", {})]
     /\ UNCHANGED <<month, orgPlan, videos, created, transcoded, files, run, usage0, call>>

\* -------------------------------------------------- usage statistics ----
\* UsageController.getUsageStats: UsageService.getUsageStats up to the usage
\* lookup of getOrCreateUsage; the statistics are answered when the row
\* exists
getUsageStats(r, o) ==
  /\ slots[r].pc = "idle"
  /\ slots' = [slots EXCEPT ![r] =
       IF resolveOrg(o) # "" \/ findUsage(usage, o, month) # {}
         THEN Respond([Idle EXCEPT !.kind = "stats", !.org = o],
                      IF resolveOrg(o) = "" THEN 200 ELSE 500, "", {})
         ELSE [Idle EXCEPT !.pc = "statsCreate", !.kind = "stats", !.org = o, !.m = month]]
  /\ UNCHANGED <<month, orgPlan, usage, videos, created, transcoded, files, run, usage0, call>>

\* getOrCreateUsage found no usage row: prisma.usage.create, then the
\* statistics; a refused create throws into the controller's catch (500)
getUsageStatsCreate(r) ==
  LET s == slots[r]
  IN /\ s.pc = "statsCreate"
     /\ IF UniqueViolation(usage, s.org, s.m)
          THEN /\ slots' = [slots EXCEPT ![r] = Respond(s, 500, "Failed to fetch usage statistics", {})]
               /\ UNCHANGED usage
          ELSE /\ usage' = usage \cup {NewUsage(usage, s.org, s.m)}
               /\ slots' = [slots EXCEPT ![r] = Respond(s, 200, "", {})]
     /\ UNCHANGED <<month, orgPlan, videos, created, transcoded, files, run, usage0, call>>

\* --------------------------------------------------- read handlers ------
\* A read handler is one query and an answer that depends on nothing else;
\* it changes no table.  body is the set of videos whose metadata or bytes
\* the answer carries.
Answer(st, error, body) == [status |-> st, error |-> error, body |-> body]

\* getAllVideos: findMany({where: {organizationId}})
getAllVideosAnswer(o) ==
  Answer(200, "", {v \in DOMAIN videos : videos[v].organizationId = o})

\* getVideoById: findFirst({where: {id, organizationId}}), 404 when null
getVideoByIdAnswer(o, id) ==
  IF findFirst(id, o) = {} THEN Answer(404, "Video not found", {})
  ELSE Answer(200, "", {id})

\* streamVideo: findFirst, 404 when null or when the file is gone; the
\* playlist path is always '' so the original file is piped
streamVideoAnswer(o, id) ==
  IF findFirst(id, o) = {} THEN Answer(404, "Video not found", {})
  ELSE IF <<id, "orig">> \notin files THEN Answer(404, "Video file not found", {})
  ELSE Answer(200, "", {id})

\* getThumbnail: findFirst, 404 when null or when there is no thumbnail
getThumbnailAnswer(o, id) ==
  IF findFirst(id, o) = {} THEN Answer(404, "Video not found", {})
  ELSE IF ~videos[id].thumbnailPath \/ <<id, "thumb">> \notin files
    THEN Answer(404, "Thumbnail not found", {})
  ELSE Answer(200, "", {id})

\* variant: the download that looks the video up by id alone
downloadVideoAnswerById(o, id) ==
  IF id \notin DOMAIN videos THEN Answer(404, "Video not found", {})
  ELSE IF <<id, "orig">> \notin files THEN Answer(404, "Video file not found", {})
  ELSE Answer(200, "", {id})

\* downloadVideo: findFirst, 404 when null or when the file is gone
downloadVideoAnswer(o, id) ==
  IF findFirst(id, o) = {} THEN Answer(404, "Video not found", {})
  ELSE IF <<id, "orig">> \notin files THEN Answer(404, "Video file not found", {})
  ELSE Answer(200, "", {id})

\* the five GET handlers: answered in one step, nothing is written
getAllVideos(o) ==
  /\ getAllVideosAnswer(o).status = 200
  /\ UNCHANGED vars

getVideoById(o, id) ==
  /\ getVideoByIdAnswer(o, id).status \in {200, 404}
  /\ UNCHANGED vars

streamVideo(o, id) ==
  /\ streamVideoAnswer(o, id).status \in {200, 404}
  /\ UNCHANGED vars

getThumbnail(o, id) ==
  /\ getThumbnailAnswer(o, id).status \in {200, 404}
  /\ UNCHANGED vars

downloadVideo(o, id) ==
  /\ downloadVideoAnswer(o, id).status \in {200, 404}
  /\ UNCHANGED vars

\* ------------------------------------------------------ specification ---
Next ==
  \/ Tick
  \/ \E r \in Reqs : Release(r)
  \/ \E r \in Reqs, o \in Orgs, ext \in Exts, size \in FileSizes : uploadStart(r, o, ext, size)
  \/ \E r \in Reqs : uploadCanUpload(r)
  \/ \E r \in Reqs : uploadCanUploadCreate(r)
  \/ \E r \in Reqs : uploadHasStorage(r)
  \/ \E r \in Reqs : uploadHasStorageCreate(r)
  \/ \E r \in Reqs : uploadTrackCreate(r)
  \/ \E v \in VideoIds, ok \in BOOLEAN : runThumbnail(v, ok)
  \/ \E v \in VideoIds, ok \in BOOLEAN, d \in Durations : runStreamingInfo(v, ok, d)
  \/ \E v \in VideoIds : runSetProcessing(v)
  \/ \E v \in VideoIds, ok \in BOOLEAN, d \in Durations : runDuration(v, ok, d)
  \/ \E v \in VideoIds : runTrack(v)
  \/ \E v \in VideoIds : runTrackCreate(v)
  \/ \E v \in VideoIds, ok \in BOOLEAN, size \in OutSizes : runEncode(v, ok, size)
  \/ \E r \in Reqs, o \in Orgs, id \in VideoIds : deleteStart(r, o, id)
  \/ \E r \in Reqs : deleteRow(r)
  \/ \E r \in Reqs : deleteTrackCreate(r)
  \/ \E r \in Reqs, o \in Orgs : getUsageStats(r, o)
  \/ \E r \in Reqs : getUsageStatsCreate(r)
  \/ \E o \in Orgs : getAllVideos(o)
  \/ \E o \in Orgs, id \in VideoIds : getVideoById(o, id)
  \/ \E o \in Orgs, id \in VideoIds : streamVideo(o, id)
  \/ \E o \in Orgs, id \in VideoIds : getThumbnail(o, id)
  \/ \E o \in Orgs, id \in VideoIds : downloadVideo(o, id)

Spec == Init /\ [][Next]_vars

\* ---------------------------------------------- overlapping uploads -----
\* Uploads while the free organization is one upload below its limit, with
\* room for MaxRaceVideos videos; the runs they start have not yet returned from
\* their first ffmpeg invocation.
InitRace ==
  /\ month = 1
  /\ orgPlan = [o \in Orgs |-> IF o = "orgA" THEN "free" ELSE "enterprise"]
  /\ usage = {UsageRow("orgA", 9, BigZero)}
  /\ usage0 = usage
  /\ videos = <<>>
  /\ created = 0
  /\ transcoded = {}
  /\ files = {}
  /\ slots = [r \in Reqs |-> Idle]
  /\ run = [v \in 1..MaxRaceVideos |-> NoRun]
  /\ call = NoCall

NextRace ==
  \/ \E r \in Reqs : Release(r)
  \/ \E r \in Reqs, o \in Orgs, ext \in Exts, size \in FileSizes : uploadStart(r, o, ext, size)
  \/ \E r \in Reqs : uploadCanUpload(r)
  \/ \E r \in Reqs : uploadHasStorage(r)
  \/ \E r \in Reqs : uploadTrackCreate(r)

SpecRace == InitRace /\ [][NextRace]_vars

\* ------------------------------------------- organizations and plans ---
\* values of organizations.plan, a text column: plans of the price list and
\* other strings
PlanNames == {"free", "enterprise", "premium", "constructor"}

\* Uploads over an organizations table in which a caller's row may be
\* missing and a plan may be any text; the runs they start have not yet
\* returned from their first ffmpeg invocation.
InitPlan ==
  /\ month = 1
  /\ orgPlan \in UNION {[D -> PlanNames] : D \in SUBSET Orgs}
  /\ usage \in {{}, {UsageRow("orgA", 9, BigZero)}}
  /\ usage0 = usage
  /\ videos = <<>>
  /\ created = 0
  /\ transcoded = {}
  /\ files = {}
  /\ slots = [r \in Reqs |-> Idle]
  /\ run = [v \in VideoIds |-> NoRun]
  /\ call = NoCall

NextPlan ==
  \/ Tick
  \/ \E r \in Reqs : Release(r)
  \/ \E r \in Reqs, o \in Orgs, ext \in Exts, size \in FileSizes : uploadStart(r, o, ext, size)
  \/ \E r \in Reqs : uploadCanUpload(r)
  \/ \E r \in Reqs : uploadCanUploadCreate(r)
  \/ \E r \in Reqs : uploadHasStorage(r)
  \/ \E r \in Reqs : uploadHasStorageCreate(r)
  \/ \E r \in Reqs : uploadTrackCreate(r)

SpecPlan == InitPlan /\ [][NextPlan]_vars

\* ------------------------------------------------- range streaming -----
\* decimal digits, as characters
Digits == <<"0", "1", "2", "3", "4", "5", "6", "7", "8", "9">>

\* `${n}` of a non-negative integer: its decimal digits
RECURSIVE toString(_)
toString(n) ==
  IF n < 10 THEN <<Digits[n + 1]>> ELSE toString(n \div 10) \o <<Digits[(n % 10) + 1]>>

\* a character sequence for a string literal of the source
bytesEq == <<"b", "y", "t", "e", "s", "=">>

\* range.replace(/bytes=/, ''): the first occurrence of bytes= is removed
replaceBytesEq(range) ==
  LET k == Len(bytesEq)
      at == {i \in 1..(Len(range) - k + 1) : SubSeq(range, i, i + k - 1) = bytesEq}
  IN IF at = {} THEN range
     ELSE LET i == CHOOSE j \in at : \A j2 \in at : j <= j2
          IN SubSeq(range, 1, i - 1) \o SubSeq(range, i + k, Len(range))

\* .split('-'): the pieces between the dashes, empty pieces included
RECURSIVE split(_)
split(str) ==
  LET at == {i \in 1..Len(str) : str[i] = "-"}
  IN IF at = {} THEN <<str>>
     ELSE LET i == CHOOSE j \in at : \A j2 \in at : j <= j2
          IN <<SubSeq(str, 1, i - 1)>> \o split(SubSeq(str, i + 1, Len(str)))

\* parseInt's NaN; the strings parsed here hold no sign, so no parse gives it
NaN == -1

\* parseInt(str, 10): the value of the leading decimal digits, NaN without one
RECURSIVE parseDigits(_, _)
parseDigits(str, acc) ==
  IF str = <<>> \/ \A d \in 1..10 : Digits[d] # Head(str) THEN acc
  ELSE parseDigits(Tail(str), 10 * acc + ((CHOOSE d \in 1..10 : Digits[d] = Head(str)) - 1))

parseInt(str) ==
  IF str = <<>> \/ \A d \in 1..10 : Digits[d] # Head(str) THEN NaN ELSE parseDigits(str, 0)

\* a stored file of n bytes: the byte at offset i is i (mod 256)
fileBytes(n) == [i \in 1..n |-> (i - 1) % 256]

\* fs.createReadStream(videoPath, { start, end }): the bytes at offsets
\* start..end, as far as the file has them
createReadStream(content, start, end) ==
  SubSeq(content, start + 1, IF end + 1 < Len(content) THEN end + 1 ELSE Len(content))

\* variant: the length of the range without its last byte
chunksizeExclusive(start, end) == end - start
\* const chunksize = (end - start) + 1
chunksize(start, end) == (end - start) + 1

\* streamVideo, from fs.statSync on: range is the Range header (<<>> when
\* the request has none), content the stored file
streamVideoFile(content, range) ==
  LET fileSize == Len(content)
      parts == split(replaceBytesEq(range))
      start == parseInt(parts[1])
      end == IF Len(parts) >= 2 /\ parts[2] # <<>> THEN parseInt(parts[2]) ELSE fileSize - 1
  IN IF range = <<>>
       THEN [status |-> 200, contentRange |-> <<>>, contentLength |-> fileSize, body |-> content]
     ELSE IF start = NaN \/ end = NaN \/ start > end
       \* createReadStream throws on such a range; the catch answers
       THEN [status |-> 500, contentRange |-> <<>>, contentLength |-> 0, body |-> <<>>]
     ELSE [status |-> 206,
           contentRange |-> <<"b", "y", "t", "e", "s", " ">> \o toString(start) \o <<"-">>
                             \o toString(end) \o <<"/">> \o toString(fileSize),
           contentLength |-> chunksize(start, end),
           body |-> createReadStream(content, start, end)]

\* the Range headers a client sends for offsets s and e, and none
rangeClosed(s, e) == bytesEq \o toString(s) \o <<"-">> \o toString(e)
rangeOpen(s) == bytesEq \o toString(s) \o <<"-">>
rangeSuffix(e) == bytesEq \o <<"-">> \o toString(e)

StreamInputs ==
  UNION {
    {[size |-> n, kind |-> "closed", s |-> s, e |-> e, range |-> rangeClosed(s, e)] :
        s \in 0..(n - 1), e \in 0..(n - 1)}
    \cup {[size |-> n, kind |-> "open", s |-> s, e |-> n - 1, range |-> rangeOpen(s)] : s \in 0..(n - 1)}
    \cup {[size |-> n, kind |-> "suffix", s |-> 0, e |-> n - 1, range |-> rangeSuffix(n - 1)]}
    \cup {[size |-> n, kind |-> "none", s |-> 0, e |-> n - 1, range |-> <<>>]}
    : n \in 1..MaxFile}

\* the tables of a server that serves one request
Quiet ==
  /\ month = 1
  /\ orgPlan = [o \in Orgs |-> IF o = "orgA" THEN "free" ELSE "enterprise"]
  /\ usage = {}
  /\ usage0 = usage
  /\ videos = <<>>
  /\ created = 0
  /\ transcoded = {}
  /\ files = {}
  /\ slots = [r \in Reqs |-> Idle]
  /\ run = [v \in VideoIds |-> NoRun]

InitStream ==
  /\ Quiet
  /\ call \in {[fn |-> "streamVideo", in |-> i, done |-> FALSE,
                out |-> [status |-> 0, contentRange |-> <<>>, contentLength |-> 0, body |-> <<>>]] :
               i \in StreamInputs}

\* GET /:id/stream of the owning organization, the file on disk
streamVideoCall ==
  /\ call.fn = "streamVideo"
  /\ ~call.done
  /\ call' = [call EXCEPT !.out = streamVideoFile(fileBytes(call.in.size), call.in.range),
                          !.done = TRUE]
  /\ UNCHANGED <<month, orgPlan, usage, videos, created, transcoded, files, slots, run, usage0>>

SpecStream == InitStream /\ [][streamVideoCall]_vars

\* -------------------------------------------------------- API keys -----
\* the characters of randomBytes.toString('hex') and of [a-f0-9]
HexLower == <<"0", "1", "2", "3", "4", "5", "6", "7", "8", "9", "a", "b", "c", "d", "e", "f">>

\* {64} of the key pattern
KeyLen == 64
\* crypto.randomBytes(32)
KeyBytes == 32

\* variant: a pattern with the i flag, A-F accepted as well
isValidApiKeyFormatAnyCase(key) ==
  LET rest == SubSeq(key, 9, Len(key))
  IN /\ Len(key) >= 8
     /\ SubSeq(key, 1, 8) \in {<<"v", "p", "_", "l", "i", "v", "e", "_">>, <<"v", "p", "_", "t", "e", "s", "t", "_">>}
     /\ Len(rest) = KeyLen
     /\ \A i \in 1..Len(rest) :
          \/ \E h \in 1..Len(HexLower) : HexLower[h] = rest[i]
          \/ rest[i] \in {"A", "B", "C", "D", "E", "F"}
\* /^vp_(live|test)_[a-f0-9]{64}$/.test(key): from the first character vp_,
\* then live or test, then _, then KeyLen characters of the class, then the
\* end of the string
isValidApiKeyFormat(key) ==
  LET rest == SubSeq(key, 9, Len(key))
  IN /\ Len(key) >= 8
     /\ SubSeq(key, 1, 3) = <<"v", "p", "_">>
     /\ SubSeq(key, 4, 7) \in {<<"l", "i", "v", "e">>, <<"t", "e", "s", "t">>}
     /\ key[8] = "_"
     /\ Len(rest) = KeyLen
     /\ \A i \in 1..Len(rest) : \E h \in 1..Len(HexLower) : HexLower[h] = rest[i]

\* generateApiKey / generateTestApiKey: the prefix and, for each of the
\* random bytes, its two hex digits
generateApiKey(prefix, randomBytes) ==
  prefix \o [i \in 1..(2 * Len(randomBytes)) |->
               LET b == randomBytes[(i + 1) \div 2]
               IN HexLower[(IF i % 2 = 1 THEN b \div 16 ELSE b % 16) + 1]]

\* authenticateApiKey for the header "Bearer <apiKey>" over the api_keys
\* table; lookups counts the prisma.apiKey.findUnique calls made
authenticateApiKey(apiKey, apiKeys) ==
  LET keyRecord == {k \in apiKeys : k.key = apiKey}
      k == CHOOSE r \in keyRecord : TRUE
  IN IF ~isValidApiKeyFormat(apiKey)
       THEN [status |-> 401, error |-> "Invalid API key format", lookups |-> 0]
     ELSE IF keyRecord = {}
       THEN [status |-> 401, error |-> "Invalid API key", lookups |-> 1]
     ELSE IF ~k.isActive
       THEN [status |-> 401, error |-> "API key is inactive", lookups |-> 1]
     ELSE IF k.organizationStatus # "active"
       THEN [status |-> 403, error |-> "Organization account is not active", lookups |-> 1]
     ELSE [status |-> 200, error |-> "", lookups |-> 1]

\* the random byte strings drawn: byte i of draw j
RandomDraws == {[i \in 1..KeyBytes |-> (37 * i + 101 * j) % 256] : j \in 0..MaxDraw}

\* keys a client may send: the generated ones, and strings of a prefix and a
\* body of some length with one character of the body replaced
KeyInputs ==
  {[key |-> generateApiKey(p, b), from |-> "generated", isActive |-> a, organizationStatus |-> st] :
     p \in {<<"v", "p", "_", "l", "i", "v", "e", "_">>, <<"v", "p", "_", "t", "e", "s", "t", "_">>}, b \in RandomDraws, a \in BOOLEAN, st \in {"active", "suspended"}}
  \cup {[key |-> p \o <<"s", "h", "o", "r", "t">>, from |-> "client", isActive |-> TRUE, organizationStatus |-> "active"] :
     p \in {<<"v", "p", "_", "l", "i", "v", "e", "_">>, <<"v", "p", "_", "t", "e", "s", "t", "_">>}}
  \cup {[key |-> p \o [i \in 1..n |-> IF i = at /\ c # "" THEN c ELSE HexLower[((7 * i + j) % 16) + 1]],
         from |-> "client", isActive |-> TRUE, organizationStatus |-> "active"] :
     p \in {<<"v", "p", "_", "l", "i", "v", "e", "_">>, <<"v", "p", "_", "t", "e", "s", "t", "_">>, <<"v", "p", "_", "p", "r", "o", "d", "_">>, <<"v", "p", "_", "l", "i", "v", "e">>, <<"x", "v", "p", "_", "l", "i", "v", "e", "_">>},
     n \in {KeyLen - 1, KeyLen, KeyLen + 1}, j \in 0..MaxDraw,
     at \in {1, KeyLen}, c \in {"", "A", "F", "g", "_"}}

InitApiKey ==
  /\ Quiet
  /\ call \in {[fn |-> "authenticateApiKey", in |-> i, done |-> FALSE, valid |-> FALSE,
                out |-> [status |-> 0, error |-> "", lookups |-> 0]] : i \in KeyInputs}

\* a request with Authorization: Bearer <key>; the table holds the generated
\* keys
apiKeyCall ==
  /\ call.fn = "authenticateApiKey"
  /\ ~call.done
  /\ call' = [call EXCEPT
       !.valid = isValidApiKeyFormat(call.in.key),
       !.out = authenticateApiKey(call.in.key,
                 IF call.in.from = "generated"
                 THEN {[key |-> call.in.key, isActive |-> call.in.isActive,
                        organizationStatus |-> call.in.organizationStatus]}
                 ELSE {}),
       !.done = TRUE]
  /\ UNCHANGED <<month, orgPlan, usage, videos, created, transcoded, files, slots, run, usage0>>

SpecApiKey == InitApiKey /\ [][apiKeyCall]_vars

\* ------------------------------------------------- SDK checkLimits -----
\* VideoProcessorClient.checkLimits on the UsageStats stats that getUsage
\* returned;
\* storageUsedGB is the quotient Number(storageUsed) / GiB, kept as whole
\* GiB g and remaining bytes b, so storageUsedGB >= n is g >= n
checkLimits(stats) ==
  LET videos_ == stats.limits.videosPerMonth # -1
                   /\ stats.current.videosUploaded >= stats.limits.videosPerMonth
      minutes == stats.limits.minutesPerMonth # -1
                   /\ stats.current.minutesProcessed >= stats.limits.minutesPerMonth
      storage == stats.current.storageUsedGB.g >= stats.limits.storageGB
      apiCalls == stats.limits.apiCallsPerMonth # -1
                   /\ stats.current.apiCalls >= stats.limits.apiCallsPerMonth
  IN [withinLimits |-> ~(videos_ \/ minutes \/ storage \/ apiCalls),
      warnings |-> (IF videos_ THEN <<"Video upload limit reached">> ELSE <<>>)
                   \o (IF minutes THEN <<"Processing minutes limit reached">> ELSE <<>>)
                   \o (IF storage THEN <<"Storage limit reached">> ELSE <<>>)
                   \o (IF apiCalls THEN <<"API calls limit reached">> ELSE <<>>)]

\* the UsageStats of GET /usage: the limits of a plan and, for each metric,
\* a value at zero, below, at or above its limit
LimitInputs ==
  LET Near(limit) == IF limit = -1 THEN {0, 5} ELSE {0, limit - 1, limit, limit + 1}
  IN UNION {
       {[current |-> [videosUploaded |-> v, minutesProcessed |-> m,
                      storageUsedGB |-> [g |-> st[1], b |-> st[2]], apiCalls |-> a],
         limits |-> PLAN_LIMITS[p], plan |-> p] :
          v \in Near(PLAN_LIMITS[p].videosPerMonth),
          m \in Near(PLAN_LIMITS[p].minutesPerMonth),
          st \in {<<0, 0>>, <<0, 1>>} \cup
                 (IF PLAN_LIMITS[p].storageGB = -1 THEN {<<700, 0>>}
                  ELSE {<<PLAN_LIMITS[p].storageGB - 1, GiB - 1>>, <<PLAN_LIMITS[p].storageGB, 0>>,
                        <<PLAN_LIMITS[p].storageGB, 1>>}),
          a \in Near(PLAN_LIMITS[p].apiCallsPerMonth)}
       : p \in DOMAIN PLAN_LIMITS}

InitLimits ==
  /\ Quiet
  /\ call \in {[fn |-> "checkLimits", in |-> i, done |-> FALSE,
                out |-> [withinLimits |-> TRUE, warnings |-> <<>>]] : i \in LimitInputs}

\* client.checkLimits()
checkLimitsCall ==
  /\ call.fn = "checkLimits"
  /\ ~call.done
  /\ call' = [call EXCEPT !.out = checkLimits(call.in), !.done = TRUE]
  /\ UNCHANGED <<month, orgPlan, usage, videos, created, transcoded, files, slots, run, usage0>>

SpecLimits == InitLimits /\ [][checkLimitsCall]_vars

\* ------------------------------------------------ ledger mutations -----
\* trackApiCall's update: apiCalls + 1
trackApiCallData(U, id) ==
  {IF u.id = id THEN [u EXCEPT !.apiCalls = @ + 1] ELSE u : u \in U}

\* variant: an update that writes the counters computed from the row the
\* call read
ledgerUpdateFromRead(U, row, kind) ==
  {u \in U : u.id # row.id}
    \cup (IF kind = "upload" THEN trackVideoUploadData({row}, row.id, CHOOSE n \in FileSizes : TRUE, 0)
          ELSE IF kind = "minutes" THEN trackVideoUploadData({row}, row.id, 0, CHOOSE d \in Durations : TRUE)
          ELSE IF kind = "deletion" THEN trackVideoDeletionData({row}, row.id, CHOOSE n \in FileSizes : TRUE)
          ELSE trackApiCallData({row}, row.id))
\* the prisma.usage.update of a ledger mutation, row being the usage the
\* call got from getOrCreateUsage: where: { id: usage.id } with increments
\* and decrements the database applies.  upload is trackVideoUpload(org,
\* size), minutes the run's trackVideoUpload(org, 0, duration), deletion
\* trackVideoDeletion(org, size), apiCall trackApiCall(org).
ledgerUpdate(U, row, kind) ==
  IF kind = "upload" THEN trackVideoUploadData(U, row.id, CHOOSE n \in FileSizes : TRUE, 0)
  ELSE IF kind = "minutes" THEN trackVideoUploadData(U, row.id, 0, CHOOSE d \in Durations : TRUE)
  ELSE IF kind = "deletion" THEN trackVideoDeletionData(U, row.id, CHOOSE n \in FileSizes : TRUE)
  ELSE trackApiCallData(U, row.id)

\* MaxCalls ledger mutations of one organization in one month, called and
\* not yet at their first await; the month's usage row exists or not
InitLedger ==
  /\ month = 1
  /\ orgPlan = [o \in Orgs |-> IF o = "orgA" THEN "free" ELSE "enterprise"]
  /\ usage \in {{}, {UsageRow("orgA", 9, BigOf(5))}}
  /\ usage0 = usage
  /\ videos = <<>>
  /\ created = 0
  /\ transcoded = {}
  /\ files = {}
  /\ slots = [r \in Reqs |-> Idle]
  /\ run = [v \in VideoIds |-> NoRun]
  /\ call \in {[fn |-> "ledger",
                of |-> [p \in 1..MaxCalls |-> [kind |-> k[p], pc |-> "find", read |-> {}]]] :
               k \in [1..MaxCalls -> {"upload", "minutes", "deletion", "apiCall"}]}

\* getOrCreateUsage: prisma.usage.findUnique
ledgerFind(p) ==
  LET found == findUsage(usage, "orgA", month)
  IN /\ call.fn = "ledger"
     /\ call.of[p].pc = "find"
     /\ call' = [call EXCEPT !.of[p].pc = IF found = {} THEN "create" ELSE "update",
                             !.of[p].read = found]
     /\ UNCHANGED <<month, orgPlan, usage, videos, created, transcoded, files, slots, run, usage0>>

\* getOrCreateUsage: prisma.usage.create when nothing was found; a refused
\* insert throws out of the mutation
ledgerCreate(p) ==
  LET row == NewUsage(usage, "orgA", month)
  IN /\ call.fn = "ledger"
     /\ call.of[p].pc = "create"
     /\ IF UniqueViolation(usage, "orgA", month)
          THEN /\ call' = [call EXCEPT !.of[p].pc = "threw"]
               /\ UNCHANGED usage
          ELSE /\ call' = [call EXCEPT !.of[p].pc = "update", !.of[p].read = {row}]
               /\ usage' = usage \cup {row}
     /\ UNCHANGED <<month, orgPlan, videos, created, transcoded, files, slots, run, usage0>>

\* the mutation's prisma.usage.update; the call returns
ledgerWrite(p) ==
  /\ call.fn = "ledger"
  /\ call.of[p].pc = "update"
  /\ usage' = ledgerUpdate(usage, CHOOSE u \in call.of[p].read : TRUE, call.of[p].kind)
  /\ call' = [call EXCEPT !.of[p].pc = "returned"]
  /\ UNCHANGED <<month, orgPlan, videos, created, transcoded, files, slots, run, usage0>>

NextLedger ==
  \/ \E p \in 1..MaxCalls : ledgerFind(p)
  \/ \E p \in 1..MaxCalls : ledgerCreate(p)
  \/ \E p \in 1..MaxCalls : ledgerWrite(p)

SpecLedger == InitLedger /\ [][NextLedger]_vars

\* ------------------------------------------------- concurrent runs -----
\* MaxRaceVideos uploads were accepted in month 1, the first of the free
\* organization and the others of the enterprise organization: their rows
\* are pending, the ledger has counted them and their runs are at the
\* thumbnail invocation
InitRuns ==
  /\ month = 1
  /\ orgPlan = [o \in Orgs |-> IF o = "orgA" THEN "free" ELSE "enterprise"]
  /\ videos = [v \in 1..MaxRaceVideos |->
                 [organizationId |-> IF v = 1 THEN "orgA" ELSE "orgB", originalExt |-> "MKV",
                  fileSize |-> 1, status |-> "pending", duration |-> 0,
                  thumbnailPath |-> FALSE, errorMessage |-> ""]]
  /\ usage = {UsageRow("orgA", 1, BigOf(1)),
              UsageRow("orgB", MaxRaceVideos - 1, BigOf(MaxRaceVideos - 1))}
  /\ usage0 = usage
  /\ created = MaxRaceVideos
  /\ transcoded = {}
  /\ files = {<<v, "orig">> : v \in 1..MaxRaceVideos}
  /\ slots = [r \in Reqs |-> Idle]
  /\ run = [v \in 1..MaxRaceVideos |-> [NoRun EXCEPT !.pc = "thumb"]]
  /\ call = NoCall

\* the steps of the runs, and the deletes that may come meanwhile
NextRuns ==
  \/ \E v \in DOMAIN run, ok \in BOOLEAN : runThumbnail(v, ok)
  \/ \E v \in DOMAIN run, ok \in BOOLEAN, d \in Durations : runStreamingInfo(v, ok, d)
  \/ \E v \in DOMAIN run : runSetProcessing(v)
  \/ \E v \in DOMAIN run, ok \in BOOLEAN, d \in Durations : runDuration(v, ok, d)
  \/ \E v \in DOMAIN run : runTrack(v)
  \/ \E v \in DOMAIN run, ok \in BOOLEAN, size \in OutSizes : runEncode(v, ok, size)
  \/ \E r \in Reqs, o \in Orgs, id \in DOMAIN run : deleteStart(r, o, id)
  \/ \E r \in Reqs : deleteRow(r)
  \/ \E r \in Reqs : Release(r)

SpecRuns == InitRuns /\ [][NextRuns]_vars

\* the next step of the run of video v: an ffmpeg or ffprobe invocation, or
\* a store call, returns
RunStep(v) ==
  \/ \E ok \in BOOLEAN : runThumbnail(v, ok)
  \/ \E ok \in BOOLEAN, d \in Durations : runStreamingInfo(v, ok, d)
  \/ runSetProcessing(v)
  \/ \E ok \in BOOLEAN, d \in Durations : runDuration(v, ok, d)
  \/ runTrack(v)
  \/ \E ok \in BOOLEAN, size \in OutSizes : runEncode(v, ok, size)

\* the runs when every external invocation and every store call returns
FairRuns == InitRuns /\ [][NextRuns]_vars /\ \A v \in 1..MaxRaceVideos : WF_vars(RunStep(v))

\* ---------------------------------------------------- plan catalog -----
\* PLANS[id].limits of the plan catalog, the four numeric limits
PLANS ==
  [free       |-> [videosPerMonth |-> 10,  minutesPerMonth |-> 30,  storageGB |-> 5,   apiCallsPerMonth |-> 1000],
   starter    |-> [videosPerMonth |-> 50,  minutesPerMonth |-> 150, storageGB |-> 25,  apiCallsPerMonth |-> 10000],
   pro        |-> [videosPerMonth |-> 200, minutesPerMonth |-> 600, storageGB |-> 100, apiCallsPerMonth |-> 50000],
   enterprise |-> [videosPerMonth |-> -1,  minutesPerMonth |-> -1,  storageGB |-> 500, apiCallsPerMonth |-> -1]]

\* getPlan(planId).limits: PLANS[planId] || PLANS.free
getPlan(planId) == IF planId \in DOMAIN PLANS THEN PLANS[planId] ELSE PLANS.free

\* an organization of some plan whose usage row of the month is at or next
\* to a limit of either table, and the upload of one more byte
QuotaInputs ==
  {[plan |-> p, videosUploaded |-> n, storageGiB |-> g] :
     p \in DOMAIN PLAN_LIMITS,
     n \in UNION {{0, l - 1, l} : l \in {10, 50, 100, 200, 1000}},
     g \in UNION {{l - 1, l} : l \in {5, 25, 50, 100, 500}}}

InitCatalog ==
  /\ Quiet
  /\ call \in {[fn |-> "quota", in |-> i, done |-> FALSE,
                out |-> [canUpload |-> FALSE, hasStorage |-> FALSE, limits |-> PLANS.free]] :
               i \in QuotaInputs}

\* the organization asks GET /billing/usage for its limits and uploads one
\* byte: canUploadVideo and hasStorageCapacity on its usage row, and the
\* limits getUsageWithLimits answers
quotaCall ==
  LET row == UsageRow("orgA", call.in.videosUploaded, [g |-> call.in.storageGiB, b |-> 0])
      limits == planLimits(call.in.plan)
  IN /\ call.fn = "quota"
     /\ ~call.done
     /\ call' = [call EXCEPT
          !.out = [canUpload |-> limits.videosPerMonth = -1 \/ canUploadVideo(limits, row).allowed,
                   hasStorage |-> limits.storageGB = -1 \/ hasStorageCapacity(limits, row, 1).allowed,
                   limits |-> getPlan(call.in.plan)],
          !.done = TRUE]
     /\ UNCHANGED <<month, orgPlan, usage, videos, created, transcoded, files, slots, run, usage0>>

SpecCatalog == InitCatalog /\ [][quotaCall]_vars

\* ------------------------------------------------ users and teams ------
MaxUsers == 3
MaxOps == 1
MaxTokens == 2
MaxAudit == 1

Emails == {"a@x", "b@x", "c@x"}
Roles == {"owner", "admin", "member", "viewer"}

\* the roles a client names in the body of an invite or a role change
RoleInputs == {"owner", "admin", "viewer"}

\* variant: a list of valid roles that names every role
validRolesWithOwner == {"owner", "admin", "member", "viewer"}

\* validRoles of inviteTeamMember and updateMemberRole
validRoles == {"admin", "member", "viewer"}

ROLE_PERMISSIONS ==
  [owner  |-> {"org:update", "org:delete", "billing:manage", "team:invite", "team:remove",
               "team:update-role", "apikey:create", "apikey:delete", "apikey:revoke",
               "video:upload", "video:delete", "video:read", "settings:manage", "audit:read"},
   admin  |-> {"team:invite", "team:remove", "team:update-role", "apikey:create",
               "apikey:delete", "apikey:revoke", "video:upload", "video:delete", "video:read",
               "settings:manage", "audit:read"},
   member |-> {"video:upload", "video:delete", "video:read", "apikey:create", "apikey:delete"},
   viewer |-> {"video:read"}]

hasPermission(userRole, permission) ==
  IF userRole \in DOMAIN ROLE_PERMISSIONS THEN permission \in ROLE_PERMISSIONS[userRole] ELSE FALSE

\* the payload jwt.sign puts in a token and authenticateJWT attaches to the
\* request; NoToken is a request without a verified token
Token(u) == [userId |-> u.id, organizationId |-> u.organizationId, role |-> u.role]
NoToken == [userId |-> 0, organizationId |-> "-", role |-> ""]

\* no updateMemberRole or removeMember is between its findFirst and its write
NoOp == [kind |-> "none", userId |-> 0, role |-> ""]

\* res.status(st).json({message | error}): the status code is kept
Res(st, message) == [status |-> st]

\* variant: a log whose failed write reaches the caller
AuditServiceLogRethrow(ok) == [written |-> ok, threw |-> ~ok]

\* AuditService.log: prisma.auditLog.create inside try/catch; a failed write
\* is printed and the promise resolves
AuditServiceLog(ok) == [written |-> ok, threw |-> FALSE]

\* await AuditService.log({action, ...}); res.status(st).json(message), and
\* the handler's catch (500) for what log throws
logThenRespond(c, action, ok, st, message, failure) ==
  LET l == AuditServiceLog(ok)
  IN [c EXCEPT !.auditLog = IF l.written THEN @ + 1 ELSE @,
               !.res = IF l.threw THEN Res(500, failure) ELSE Res(st, message)]

\* the tables after no signup: no organization, user, invite or token
InitTeam ==
  /\ Quiet
  /\ call = [fn |-> "team", status |-> [o \in Orgs |-> "none"], users |-> {}, invites |-> {},
             tokens |-> {}, nextId |-> 1, ops |-> [k \in 1..MaxOps |-> NoOp],
             auditLog |-> 0, res |-> Res(0, ""), req |-> [r \in Reqs |-> NoToken]]

\* signup: the e-mail must be new; one transaction creates the organization
\* (plan free, status active) and its user with role owner
signup(o, email) ==
  /\ call.fn = "team"
  /\ call.status[o] = "none"
  /\ \A p \in Orgs : call.status[p] = "none" => ~(p = "orgA" /\ o = "orgB")
  /\ call.nextId <= MaxUsers
  /\ call' = IF \E u \in call.users : u.email = email
               THEN [call EXCEPT !.res = Res(400, "Email already registered")]
               ELSE [call EXCEPT
                       !.status[o] = "active",
                       !.users = @ \cup {[id |-> call.nextId, email |-> email, role |-> "owner",
                                          organizationId |-> o]},
                       !.nextId = @ + 1,
                       !.res = Res(201, "Account created successfully")]
  /\ UNCHANGED <<month, orgPlan, usage, videos, created, transcoded, files, slots, run, usage0>>

\* login of user u with the right password: 403 unless the organization is
\* active, else the audit row, the token and the 200 answer
loginData(c, u, ok) ==
  IF c.status[u.organizationId] # "active"
    THEN [c EXCEPT !.res = Res(403, "Organization account is not active")]
  ELSE LET d == logThenRespond(c, "user.login", ok, 200, "Login successful", "Login failed")
       IN IF d.res.status = 200 THEN [d EXCEPT !.tokens = @ \cup {Token(u)}] ELSE d

login(u, ok) ==
  /\ call.fn = "team"
  /\ u \in call.users
  /\ Token(u) \in call.tokens \/ Cardinality(call.tokens) < MaxTokens
  /\ ok => call.auditLog < MaxAudit
  /\ call' = loginData(call, u, ok)
  /\ UNCHANGED <<month, orgPlan, usage, videos, created, transcoded, files, slots, run, usage0>>

\* inviteTeamMember behind authenticateJWT and requirePermission('team:invite')
inviteTeamMemberData(c, t, email, role, ok) ==
  IF ~hasPermission(t.role, "team:invite") THEN [c EXCEPT !.res = Res(403, "Insufficient permissions")]
  ELSE IF role \notin validRoles
    THEN [c EXCEPT !.res = Res(400, "Invalid role. Must be admin, member, or viewer")]
  ELSE IF \E u \in c.users : u.email = email /\ u.organizationId = t.organizationId
    THEN [c EXCEPT !.res = Res(400, "User already exists in this organization")]
  ELSE IF \E i \in c.invites : i.organizationId = t.organizationId /\ i.email = email /\ i.status = "pending"
    THEN [c EXCEPT !.res = Res(400, "Invite already sent to this email")]
  ELSE logThenRespond(
         [c EXCEPT !.invites = @ \cup {[organizationId |-> t.organizationId, email |-> email,
                                        role |-> role, status |-> "pending"]}],
         "team.invite", ok, 201, "Team member invited successfully", "Failed to invite team member")

inviteTeamMember(t, email, role, ok) ==
  /\ call.fn = "team"
  /\ t \in call.tokens
  /\ ok => call.auditLog < MaxAudit
  /\ call' = inviteTeamMemberData(call, t, email, role, ok)
  /\ UNCHANGED <<month, orgPlan, usage, videos, created, transcoded, files, slots, run, usage0>>

\* acceptInvite with the token of invite i, before it expires: one
\* transaction creates the user with the invite's role and marks the invite
acceptInviteData(c, i, ok) ==
  IF i.status # "pending" THEN [c EXCEPT !.res = Res(400, "Invite has already been used")]
  ELSE IF \E u \in c.users : u.email = i.email
    THEN [c EXCEPT !.res = Res(400, "User with this email already exists")]
  ELSE logThenRespond(
         [c EXCEPT !.users = @ \cup {[id |-> c.nextId, email |-> i.email, role |-> i.role,
                                      organizationId |-> i.organizationId]},
                   !.invites = (@ \ {i}) \cup {[i EXCEPT !.status = "accepted"]},
                   !.nextId = @ + 1],
         "team.invite.accepted", ok, 201, "Invite accepted successfully", "Failed to accept invite")

acceptInvite(i, ok) ==
  /\ call.fn = "team"
  /\ i \in call.invites
  /\ call.nextId <= MaxUsers
  /\ ok => call.auditLog < MaxAudit
  /\ call' = acceptInviteData(call, i, ok)
  /\ UNCHANGED <<month, orgPlan, usage, videos, created, transcoded, files, slots, run, usage0>>

\* updateMemberRole (kind "role", behind requirePermission('team:update-role'))
\* and removeMember (kind "remove", behind requirePermission('team:remove'))
\* up to the write: the role is validated, the user is looked up in the
\* caller's organization, an owner is refused, and so is removing oneself
memberFind(k, kind, t, userId, role) ==
  LET user == {u \in call.users : u.id = userId /\ u.organizationId = t.organizationId}
      permission == IF kind = "role" THEN "team:update-role" ELSE "team:remove"
  IN /\ call.fn = "team"
     /\ call.ops[k] = NoOp
     /\ t \in call.tokens
     /\ call' =
          IF ~hasPermission(t.role, permission) THEN [call EXCEPT !.res = Res(403, "Insufficient permissions")]
          ELSE IF kind = "role" /\ role \notin validRoles THEN [call EXCEPT !.res = Res(400, "Invalid role")]
          ELSE IF user = {} THEN [call EXCEPT !.res = Res(404, "User not found")]
          ELSE IF \E u \in user : u.role = "owner"
            THEN [call EXCEPT !.res = Res(403, IF kind = "role" THEN "Cannot change owner role"
                                                ELSE "Cannot remove organization owner")]
          ELSE IF kind = "remove" /\ userId = t.userId
            THEN [call EXCEPT !.res = Res(403, "Cannot remove yourself")]
          ELSE [call EXCEPT !.ops[k] = [kind |-> kind, userId |-> userId,
                                            role |-> IF kind = "role" THEN role ELSE ""]]
     /\ UNCHANGED <<month, orgPlan, usage, videos, created, transcoded, files, slots, run, usage0>>

\* prisma.user.update({where: {id}, data: {role}}) (throws when the row is
\* gone), the audit row and the answer
updateMemberRoleData(c, k, ok) ==
  LET op == c.ops[k]
      user == {u \in c.users : u.id = op.userId}
      d == [c EXCEPT !.ops[k] = NoOp]
  IN IF user = {} THEN [d EXCEPT !.res = Res(500, "Failed to update role")]
     ELSE logThenRespond(
            [d EXCEPT !.users = (@ \ user) \cup {[u EXCEPT !.role = op.role] : u \in user}],
            "team.role.updated", ok, 200, "Role updated successfully", "Failed to update role")

updateMemberRole(k, ok) ==
  /\ call.fn = "team"
  /\ call.ops[k].kind = "role"
  /\ ok => call.auditLog < MaxAudit
  /\ call' = updateMemberRoleData(call, k, ok)
  /\ UNCHANGED <<month, orgPlan, usage, videos, created, transcoded, files, slots, run, usage0>>

\* prisma.user.delete({where: {id}}) (throws when the row is gone), the
\* audit row and the answer
removeMemberData(c, k, ok) ==
  LET op == c.ops[k]
      user == {u \in c.users : u.id = op.userId}
      d == [c EXCEPT !.ops[k] = NoOp]
  IN IF user = {} THEN [d EXCEPT !.res = Res(500, "Failed to remove team member")]
     ELSE logThenRespond([d EXCEPT !.users = @ \ user],
            "team.member.removed", ok, 200, "Team member removed successfully",
            "Failed to remove team member")

removeMember(k, ok) ==
  /\ call.fn = "team"
  /\ call.ops[k].kind = "remove"
  /\ ok => call.auditLog < MaxAudit
  /\ call' = removeMemberData(call, k, ok)
  /\ UNCHANGED <<month, orgPlan, usage, videos, created, transcoded, files, slots, run, usage0>>

NextTeam ==
  \/ \E o \in Orgs, email \in Emails : signup(o, email)
  \/ \E u \in call.users, ok \in BOOLEAN : login(u, ok)
  \/ \E t \in call.tokens, email \in Emails, role \in RoleInputs, ok \in BOOLEAN :
       inviteTeamMember(t, email, role, ok)
  \/ \E i \in call.invites, ok \in BOOLEAN : acceptInvite(i, ok)
  \/ \E k \in 1..MaxOps, kind \in {"role", "remove"}, t \in call.tokens,
        userId \in 1..MaxUsers, role \in RoleInputs : memberFind(k, kind, t, userId, role)
  \/ \E k \in 1..MaxOps, ok \in BOOLEAN : updateMemberRole(k, ok)
  \/ \E k \in 1..MaxOps, ok \in BOOLEAN : removeMember(k, ok)

SpecTeam == InitTeam /\ [][NextTeam]_vars

\* ------------------------------------- credentials and suspension ------
\* organization orgA with its owner and a viewer, one completed video and
\* room for one more
InitAccess ==
  /\ month = 1
  /\ orgPlan = [o \in Orgs |-> IF o = "orgA" THEN "free" ELSE "enterprise"]
  /\ videos = [v \in {1} |->
                 [organizationId |-> "orgA", originalExt |-> "mp4", fileSize |-> 1,
                  status |-> "completed", duration |-> 0, thumbnailPath |-> FALSE,
                  errorMessage |-> ""]]
  /\ usage = {UsageRow("orgA", 1, BigOf(1))}
  /\ usage0 = usage
  /\ created = 1
  /\ transcoded = {}
  /\ files = {<<1, "orig">>}
  /\ slots = [r \in Reqs |-> Idle]
  /\ run = [v \in 1..MaxRaceVideos |-> IF v = 1 THEN runOver(NoRun, "ended") ELSE NoRun]
  /\ call = [fn |-> "team", status |-> [o \in Orgs |-> IF o = "orgA" THEN "active" ELSE "none"],
             users |-> {[id |-> 1, email |-> "a@x", role |-> "owner", organizationId |-> "orgA"],
                        [id |-> 2, email |-> "b@x", role |-> "viewer", organizationId |-> "orgA"]},
             invites |-> {}, tokens |-> {}, nextId |-> 3, ops |-> [k \in 1..MaxOps |-> NoOp],
             auditLog |-> 0, res |-> Res(0, ""), req |-> [r \in Reqs |-> NoToken]]

\* handleWebhook for an event about organization o: a completed checkout
\* sets the plan and status active, an updated subscription sets active or
\* suspended after its status, a deleted one sets plan free and active, a
\* failed invoice payment sets suspended
handleWebhook(o, type, subscriptionStatus, planId) ==
  /\ call.fn = "team"
  /\ call.status[o] # "none"
  /\ call' = [call EXCEPT !.status[o] =
       IF type = "invoice.payment_failed" THEN "suspended"
       ELSE IF type = "customer.subscription.updated" /\ subscriptionStatus # "active" THEN "suspended"
       ELSE "active"]
  /\ orgPlan' = [orgPlan EXCEPT ![o] =
       IF type = "checkout.session.completed" THEN planId
       ELSE IF type = "customer.subscription.deleted" THEN "free"
       ELSE @]
  /\ UNCHANGED <<month, usage, videos, created, transcoded, files, slots, run, usage0>>

\* authenticateJWT: jwt.verify of the Bearer token, whose payload becomes
\* req.userId, req.organizationId and req.userRole; 401 without a token
authenticateJWT(r, t) ==
  /\ call.fn = "team"
  /\ slots[r].pc = "idle"
  /\ t \in call.tokens \cup {NoToken}
  /\ call' = [call EXCEPT !.req[r] = t]
  /\ UNCHANGED <<month, orgPlan, usage, videos, created, transcoded, files, slots, run, usage0>>

\* GET /:id of the video router: getVideoById answers the request
videoRead(r, o, id) ==
  LET a == getVideoByIdAnswer(o, id)
  IN /\ slots[r].pc = "idle"
     /\ slots' = [slots EXCEPT ![r] =
          Respond([Idle EXCEPT !.kind = "read", !.org = o, !.id = id], a.status, a.error, a.body)]
     /\ UNCHANGED <<month, orgPlan, usage, videos, created, transcoded, files, run, usage0, call>>

\* the video router: router.use(authenticateJWT), then the handler of the
\* route with req.organizationId of the token
videoRoutes(r) ==
  /\ call.fn = "team"
  /\ call.req[r] # NoToken
  /\ \/ \E ext \in Exts, size \in FileSizes : uploadStart(r, call.req[r].organizationId, ext, size)
     \/ \E id \in DOMAIN run : deleteStart(r, call.req[r].organizationId, id)
     \/ \E id \in DOMAIN run : videoRead(r, call.req[r].organizationId, id)

\* the usage router: router.use(authenticateApiKey) with the organization's
\* API key, then getUsageStats
usageRoutes(r, o) ==
  LET key == generateApiKey(<<"v", "p", "_", "l", "i", "v", "e", "_">>, CHOOSE b \in RandomDraws : TRUE)
      auth == authenticateApiKey(key, {[key |-> key, isActive |-> TRUE,
                                        organizationStatus |-> call.status[o]]})
  IN /\ call.fn = "team"
     /\ call.status[o] # "none"
     /\ IF auth.status = 200
          THEN getUsageStats(r, o)
          ELSE /\ slots[r].pc = "idle"
               /\ slots' = [slots EXCEPT ![r] =
                    Respond([Idle EXCEPT !.kind = "stats", !.org = o], auth.status, auth.error, {})]
               /\ UNCHANGED <<month, orgPlan, usage, videos, created, transcoded, files, run, usage0, call>>

NextAccess ==
  \/ \E u \in call.users, ok \in BOOLEAN : login(u, ok)
  \/ \E o \in Orgs, type \in {"checkout.session.completed", "customer.subscription.updated",
                              "customer.subscription.deleted", "invoice.payment_failed"},
        st \in {"active", "past_due"}, planId \in {"starter"} : handleWebhook(o, type, st, planId)
  \/ \E r \in Reqs, t \in call.tokens \cup {NoToken} : authenticateJWT(r, t)
  \/ \E r \in Reqs : videoRoutes(r)
  \/ \E r \in Reqs, o \in Orgs : usageRoutes(r, o)
  \/ \E r \in Reqs : uploadCanUpload(r)
  \/ \E r \in Reqs : uploadHasStorage(r)
  \/ \E r \in Reqs : deleteRow(r)
  \/ \E r \in Reqs : Release(r)

SpecAccess == InitAccess /\ [][NextAccess]_vars

\* ------------------------------------------------------------ claims ----
\* what getOrCreateUsage(o) of month m reads or creates in table U
usageNow(U, o, m) ==
  IF findUsage(U, o, m) = {} THEN NewUsage(U, o, m) ELSE CHOOSE u \in findUsage(U, o, m) : TRUE

RECURSIVE SumVideos(_, _)
SumVideos(S, field) ==
  IF S = {} THEN 0
  ELSE LET v == CHOOSE x \in S : TRUE IN videos[v][field] + SumVideos(S \ {v}, field)

\* C1: a caller of organization o never obtains a video of another
\* organization: getVideoById, streamVideo, getThumbnail and downloadVideo
\* answer it exactly as they answer a video that does not exist (404 "Video
\* not found", nothing served), and getAllVideos leaves it out of its list.
C1_TenantIsolation ==
  \A o \in Orgs : \A id \in DOMAIN videos :
    videos[id].organizationId # o =>
      /\ getVideoByIdAnswer(o, id) = Answer(404, "Video not found", {})
      /\ streamVideoAnswer(o, id) = Answer(404, "Video not found", {})
      /\ getThumbnailAnswer(o, id) = Answer(404, "Video not found", {})
      /\ downloadVideoAnswer(o, id) = Answer(404, "Video not found", {})
      /\ id \notin getAllVideosAnswer(o).body

\* C1 witness: a processed video of orgB that orgB is served in full (file
\* and thumbnail) while orgA asks for it
C1_OtherOrgVideoServed ==
  \E id \in DOMAIN videos :
    /\ videos[id].organizationId = "orgB"
    /\ streamVideoAnswer("orgB", id).status = 200
    /\ getThumbnailAnswer("orgB", id).status = 200
    /\ downloadVideoAnswer("orgB", id).body = {id}
    /\ getAllVideosAnswer("orgB").body = {id}
    /\ getVideoByIdAnswer("orgA", id).status = 404

\* C2: deleteVideo called by an organization other than the video's owner
\* answers 404 and changes nothing: the Video row, its TranscodedVideo rows,
\* its files and every usage row stay as they were.
C2_CrossOrgDelete ==
  [][\A r \in Reqs :
       LET t == slots'[r]
       IN (slots[r].pc = "idle" /\ t.kind = "delete" /\ t.id \in DOMAIN videos
             /\ videos[t.id].organizationId # t.org)
            => /\ t.pc = "done"
               /\ t.status = 404
               /\ UNCHANGED <<videos, transcoded, files, usage>>]_vars

\* C2 witness: a delete by the other organization was answered 404 and the
\* video, processed and with its rows and file, is still there
C2_CrossOrgDeleteAnswered ==
  \E r \in Reqs :
    /\ slots[r].kind = "delete"
    /\ slots[r].pc = "done"
    /\ slots[r].status = 404
    /\ slots[r].id \in DOMAIN videos
    /\ videos[slots[r].id].organizationId # slots[r].org
    /\ rowsOf(transcoded, slots[r].id) # {}
    /\ <<slots[r].id, "orig">> \in files

\* C3: canUploadVideo allows an upload iff the plan's videosPerMonth is -1
\* or the videosUploaded of the current month's usage row (0 for a row it
\* has just created) is strictly below the limit.
C3_CanUploadIffBelowLimit ==
  [][\A r \in Reqs :
       LET s == slots[r]
           t == slots'[r]
           limit == PLAN_LIMITS[orgPlan[s.org]].videosPerMonth
           current == IF s.pc = "canUpload" THEN usageNow(usage, s.org, month).videosUploaded ELSE 0
           allowed == t.pc = "hasStorage"
           refused == t.pc = "done" /\ t.status = 429
       IN (s.pc \in {"canUpload", "canUploadCreate"} /\ (allowed \/ refused))
            => (allowed <=> (limit = -1 \/ current < limit))]_vars

\* C3 witness: the free organization, one upload below its limit of 10, has
\* passed the count check
C3_AllowedBelowLimit ==
  \E r \in Reqs :
    /\ slots[r].pc = "hasStorage"
    /\ slots[r].org = "orgA"
    /\ usageNow(usage, "orgA", month).videosUploaded = 9

\* C4: hasStorageCapacity refuses iff the plan's storageGB is not -1 and the
\* current storageUsed plus the bytes of the upload is strictly greater than
\* storageGB * 1024^3; a total equal to the limit is allowed.
C4_StorageRefusedIffAbove ==
  [][\A r \in Reqs :
       LET s == slots[r]
           t == slots'[r]
           limitGB == PLAN_LIMITS[orgPlan[s.org]].storageGB
           current == IF s.pc = "hasStorage" THEN usageNow(usage, s.org, month).storageUsed ELSE BigZero
           newTotal == BigAdd(current, BigOf(s.size))
           above == newTotal.g > limitGB \/ (newTotal.g = limitGB /\ newTotal.b > 0)
           allowed == t.id # 0
           refused == t.pc = "done" /\ t.status = 429
       IN (s.pc \in {"hasStorage", "hasStorageCreate"} /\ (allowed \/ refused))
            => (refused <=> (limitGB # -1 /\ above))]_vars

\* C4 witness: an upload of the free organization was accepted and brought
\* its storageUsed to exactly 5 * 1024^3 bytes
C4_AcceptedAtTheLimit ==
  \E r \in Reqs :
    /\ slots[r].kind = "upload"
    /\ slots[r].status = 201
    /\ slots[r].org = "orgA"
    /\ usageNow(usage, "orgA", 1).storageUsed = [g |-> 5, b |-> 0]

\* C5: when the count check or the storage check refuses an upload, the
\* answer is 429 with the check's reason (the limit reached for the count
\* check), the uploaded file is deleted, and the request creates no Video
\* row, changes no usage counter and starts no processing run.
C5_RefusedUpload ==
  [][\A r \in Reqs :
       LET s == slots[r]
           t == slots'[r]
           limits == PLAN_LIMITS[orgPlan[s.org]]
           u == usageNow(usage, s.org, month)
           overCount ==
             /\ s.pc = "canUpload"
             /\ limits.videosPerMonth # -1
             /\ u.videosUploaded >= limits.videosPerMonth
           overStorage ==
             /\ s.pc = "hasStorage"
             /\ limits.storageGB # -1
             /\ BigGT(BigAdd(u.storageUsed, BigOf(s.size)), [g |-> limits.storageGB, b |-> 0])
       IN (t # s /\ findUsage(usage, s.org, month) # {} /\ (overCount \/ overStorage))
            => /\ t.pc = "done"
               /\ t.status = 429
               /\ overCount => t.reason = "Monthly video upload limit reached"
               /\ overStorage => t.reason = "Storage limit exceeded"
               /\ s.tmp /\ ~t.tmp
               /\ t.id = 0
               /\ UNCHANGED <<usage, videos, created, transcoded, run>>]_vars

\* C5 witness: an upload of the free organization, 10 uploads this month,
\* was answered 429
C5_RefusedAtTheLimit ==
  \E r \in Reqs :
    /\ slots[r].kind = "upload"
    /\ slots[r].status = 429
    /\ slots[r].org = "orgA"
    /\ usageNow(usage, "orgA", month).videosUploaded = 10

\* C6: a file whose extension, compared without regard to case, is not in
\* the allow-list is refused before uploadVideo runs: the request ends
\* there, without a Video row, a usage change or a processing run, and every
\* Video row has an allowed extension.
C6_DisallowedExtension ==
  [][/\ \A r \in Reqs :
          LET t == slots'[r]
          IN (t # slots[r] /\ t.kind = "upload" /\ t.ext # ""
                /\ toLowerCase(t.ext) \notin allowedFormats)
               => /\ t.pc = "done"
                  /\ t.status # 201
                  /\ t.id = 0
                  /\ UNCHANGED <<usage, videos, created, run>>
     /\ \A v \in DOMAIN videos' : toLowerCase(videos'[v].originalExt) \in allowedFormats]_vars

\* C6 witness: a file named .EXE was refused
C6_UpperCaseRefused ==
  \E r \in Reqs :
    /\ slots[r].kind = "upload"
    /\ slots[r].ext = "EXE"
    /\ slots[r].pc = "done"
    /\ slots[r].id = 0

\* C7: a successful deleteVideo of V removes V's row and every
\* TranscodedVideo row of V, no row of V exists afterwards whatever a run
\* still does, and the organization's storageUsed goes down by exactly
\* V.fileSize plus the fileSize of the TranscodedVideo rows of V.
C7_DeleteAccounting ==
  [][/\ \A r \in Reqs :
          LET s == slots[r]
              t == slots'[r]
              m == IF s.pc = "delete" THEN month ELSE s.m
          IN /\ (s.pc = "delete" /\ t # s /\ videoExists(s.id))
                  => /\ s.id \notin DOMAIN videos'
                     /\ rowsOf(transcoded', s.id) = {}
                     /\ s.total = videos[s.id].fileSize + SumSizes(rowsOf(transcoded, s.id))
             /\ (s.kind = "delete" /\ t # s /\ t.status = 200)
                  => usageNow(usage', s.org, m).storageUsed
                       = BigSub(usageNow(usage, s.org, m).storageUsed, BigOf(s.total))
     /\ \A t \in transcoded' : t.videoId \in DOMAIN videos']_vars

\* the outcome C8 describes for video v: status completed, one row per
\* resolution, failed where the encode failed and completed elsewhere
RunOutcome(v) ==
  /\ videos[v].status = "completed"
  /\ \A i \in 1..Len(resolutions) :
       LET rows == rowsAt(transcoded, v, resolutions[i])
       IN /\ Cardinality(rows) = 1
          /\ \A t \in rows :
               t.status = IF resolutions[i] \in run[v].encFailed THEN "failed" ELSE "completed"

\* C8 as stated: after a run in which thumbnailing and both probes
\* succeeded, the video is completed and has exactly one row per
\* resolution, completed unless its encode failed.
C8_AfterProbes ==
  \A v \in DOMAIN videos : (run[v].pc = "ended" /\ run[v].probed) => RunOutcome(v)

\* C8: after a run in which thumbnailing, both probes and the run's usage
\* write succeeded, the video (when it still exists) is completed and has
\* exactly one row per resolution (720p, 1080p); a row is completed unless
\* its encode failed, then that row alone is failed and the later
\* resolution was still encoded.
C8_AfterUsageWrite ==
  \A v \in DOMAIN videos : (run[v].pc = "ended" /\ run[v].tracked) => RunOutcome(v)

\* C8 witness: a run ended whose 720p encode failed and whose 1080p encode
\* succeeded
C8_FirstEncodeFailed ==
  \E v \in DOMAIN videos :
    /\ run[v].pc = "ended"
    /\ run[v].tracked
    /\ run[v].encFailed = {"720p"}
    /\ \E t \in rowsAt(transcoded, v, "1080p") : t.status = "completed" /\ t.fileSize = 3

\* C9: there is at most one usage row per organization and month, also
\* when two accesses find none and both go on to create it.
C9_OneUsagePerMonth ==
  \A o \in Orgs : \A m \in Months : Cardinality(findUsage(usage, o, m)) <= 1

\* C9 witness: two requests of one organization both found no usage row of
\* the month, one has created it, the other is about to
C9_SecondCreatePending ==
  \E r \in Reqs : \E q \in Reqs \ {r} :
    /\ slots[r].pc \in {"canUploadCreate", "hasStorageCreate", "trackCreate",
                        "trackDeletionCreate", "statsCreate"}
    /\ slots[q].pc = "done"
    /\ slots[q].kind = "stats"
    /\ slots[q].status = 200
    /\ slots[q].org = slots[r].org
    /\ findUsage(usage, slots[r].org, slots[r].m) # {}
    /\ findUsage(usage0, slots[r].org, slots[r].m) = {}

\* C10: an accepted upload raises videosUploaded by exactly 1, handler and
\* run together: when the n uploads of an organization are all processed,
\* nothing was deleted and the month has not changed, videosUploaded has
\* grown by n, storageUsed by the sum of the uploaded sizes and
\* minutesProcessed by the sum of duration / 60.
C10_CountersAfterUploads ==
  \A o \in Orgs :
    LET mine == {v \in DOMAIN videos : videos[v].organizationId = o}
        n == Cardinality(mine)
        base == usageNow(usage0, o, 1)
        now == usageNow(usage, o, 1)
    IN (/\ month = 1
        /\ created = Cardinality(DOMAIN videos)
        /\ n > 0
        /\ \A v \in mine : run[v].pc = "ended" /\ videos[v].status = "completed"
        /\ \A r \in Reqs : slots[r].pc \in {"idle", "done"})
         => /\ now.videosUploaded = base.videosUploaded + n
            /\ now.storageUsed = BigAdd(base.storageUsed, BigOf(SumVideos(mine, "fileSize")))
            /\ now.minutesProcessed = base.minutesProcessed + SumVideos(mine, "duration")

\* the place of a status in pending -> processing -> completed | failed | error
StatusRank(st) ==
  CASE st = "pending" -> 0
    [] st = "processing" -> 1
    [] OTHER -> 2

\* C11: a Video's status only moves forward along pending -> processing ->
\* (completed | failed | error): the thumbnail is extracted with the status
\* already past pending, the status is completed only when every
\* resolution has been encoded (its row completed or failed), and completed
\* is never followed by processing.
C11_StatusForward ==
  [][\A v \in DOMAIN videos \cap DOMAIN videos' :
       LET a == videos[v].status
           b == videos'[v].status
       IN /\ a # b => StatusRank(b) > StatusRank(a)
          /\ run'[v].pc = "thumb" => b # "pending"
          /\ b = "completed" =>
               \A i \in 1..Len(resolutions) :
                 \E t \in rowsAt(transcoded', v, resolutions[i]) : t.status \in {"completed", "failed"}
          /\ a = "completed" => b # "processing"]_vars

\* C12: when a step of a run throws, the run executes no further step and
\* is not started again, the Video (while it exists) has status failed or
\* error and a non-empty errorMessage, and the run's promise is resolved or
\* its rejection is caught, also when the write of the failure status
\* throws because the video is gone.
C12_RunFailure ==
  [][\A v \in VideoIds :
       /\ run[v].threw => run'[v] = run[v]
       /\ run'[v].threw => run'[v].pc \in {"ended", "rejected"}
       /\ run'[v].pc # "unhandled"
       /\ (run'[v].threw /\ v \in DOMAIN videos')
            => /\ videos'[v].status \in {"failed", "error"}
               /\ videos'[v].errorMessage # ""]_vars

\* C12 witness: a step threw after the video was deleted, the write of the
\* failure status threw too, and the rejection was caught
C12_FailureWriteFailed ==
  \E v \in VideoIds :
    /\ run[v].threw
    /\ run[v].pc = "rejected"
    /\ v \notin DOMAIN videos

\* C13: the step that answers an accepted upload answers 201 with status
\* pending, the Video row (created pending) has not been touched by a run,
\* the upload is in the ledger (videosUploaded + 1, storageUsed + size), the
\* run has been started and has not finished a step; an answer, once given,
\* does not change with the run.
C13_AcceptedUpload ==
  [][\A r \in Reqs :
       LET s == slots[r]
           t == slots'[r]
           m == IF s.pc = "trackCreate" THEN s.m ELSE month
           before == usageNow(usage, t.org, m)
           after == usageNow(usage', t.org, m)
       IN /\ (t.kind = "upload" /\ t.status = 201 /\ s.pc # "done")
               => /\ t.pc = "done"
                  /\ t.reason = "pending"
                  /\ t.body = {t.id}
                  /\ t.id \in DOMAIN videos' => videos'[t.id].status = "pending"
                  /\ after.videosUploaded = before.videosUploaded + 1
                  /\ after.storageUsed = BigAdd(before.storageUsed, BigOf(s.size))
                  /\ run[t.id].pc = "none"
                  /\ run'[t.id].pc = "thumb"
          /\ (s.kind = "upload" /\ s.status = 201 /\ t.pc = "done") => t = s]_vars

\* C13 witness: the upload was answered 201 pending and its run has failed
\* since; the failure shows in the Video row only
C13_FailureAfterAnswer ==
  \E r \in Reqs :
    /\ slots[r].kind = "upload"
    /\ slots[r].status = 201
    /\ slots[r].reason = "pending"
    /\ slots[r].id \in DOMAIN videos
    /\ videos[slots[r].id].status = "error"
    /\ getVideoByIdAnswer(slots[r].org, slots[r].id).body = {slots[r].id}

\* C20: the storageUsed of every usage row is never below zero.
C20_StorageNotNegative ==
  \A u \in usage : u.storageUsed.g >= 0

\* C18: the limit check and the count are not one step: an upload that
\* passes canUploadVideo leaves every usage row as it is (the count goes up
\* only when the handler records the upload), so overlapping uploads all
\* pass on the same count.
C18_CheckDoesNotCount ==
  [][\A r \in Reqs :
       (slots[r].pc = "canUpload" /\ slots'[r].pc = "hasStorage") => usage' = usage]_vars

\* C18 witness: two uploads of the free organization (limit 10) were both
\* accepted from a count of 9; no run has counted anything yet and the
\* month's videosUploaded is 11
C18_OverTheLimit ==
  /\ created = 2
  /\ \A v \in DOMAIN videos : videos[v].organizationId = "orgA" /\ run[v].pc = "thumb"
  /\ \A u \in usage0 : u.videosUploaded = 9
  /\ usageNow(usage, "orgA", month).videosUploaded = 11
  /\ PLAN_LIMITS[orgPlan["orgA"]].videosPerMonth = 10

\* C14: for a stored file of N bytes, a stream request with bytes=s-e,
\* 0 <= s <= e <= N-1, is answered 206 with Content-Range "bytes s-e/N",
\* Content-Length e-s+1 and exactly the e-s+1 bytes at offsets s..e
\* (bytes=s- uses e = N-1); a request without a Range header is answered 200
\* with Content-Length N and the whole file.
C14_RangeStreaming ==
  (call.fn = "streamVideo" /\ call.done) =>
    LET i == call.in
        N == i.size
        out == call.out
    IN /\ (i.kind \in {"closed", "open"} /\ i.s <= i.e) =>
            /\ out.status = 206
            /\ out.contentRange = <<"b", "y", "t", "e", "s", " ">> \o toString(i.s) \o <<"-">>
                                    \o toString(i.e) \o <<"/">> \o toString(N)
            /\ out.contentLength = i.e - i.s + 1
            /\ Len(out.body) = i.e - i.s + 1
            /\ \A k \in 1..Len(out.body) : out.body[k] = fileBytes(N)[i.s + k]
       /\ i.kind = "none" =>
            /\ out.status = 200
            /\ out.contentLength = N
            /\ out.body = fileBytes(N)

\* C14 witness: bytes=2-11 of a 12-byte file was answered with ten bytes
C14_TenBytesServed ==
  /\ call.fn = "streamVideo" /\ call.done
  /\ call.in.size = 12 /\ call.in.range = <<"b", "y", "t", "e", "s", "=", "2", "-", "1", "1">>
  /\ call.out.status = 206 /\ Len(call.out.body) = 10
  /\ call.out.contentRange = <<"b", "y", "t", "e", "s", " ", "2", "-", "1", "1", "/", "1", "2">>

\* C15 as stated: a key is accepted iff it is vp_live_ or vp_test_ followed
\* by exactly 64 hex characters, of either case
C15_AnyHexDigits ==
  (call.fn = "authenticateApiKey" /\ call.done) =>
    (call.valid <=>
       \E p \in {<<"v", "p", "_", "l", "i", "v", "e", "_">>, <<"v", "p", "_", "t", "e", "s", "t", "_">>} :
         /\ Len(call.in.key) = Len(p) + 64
         /\ SubSeq(call.in.key, 1, Len(p)) = p
         /\ \A i \in (Len(p) + 1)..Len(call.in.key) :
              call.in.key[i] \in {"0", "1", "2", "3", "4", "5", "6", "7", "8", "9",
                                  "a", "b", "c", "d", "e", "f", "A", "B", "C", "D", "E", "F"})

\* C15: isValidApiKeyFormat accepts a key iff it is vp_live_ or vp_test_
\* followed by exactly 64 characters of 0-9 and lower-case a-f; every key of
\* generateApiKey and generateTestApiKey is accepted; authenticateApiKey
\* answers 401 for a key of invalid format without any store lookup.
C15_LowerHexDigits ==
  (call.fn = "authenticateApiKey" /\ call.done) =>
    /\ call.valid <=>
         \E p \in {<<"v", "p", "_", "l", "i", "v", "e", "_">>, <<"v", "p", "_", "t", "e", "s", "t", "_">>} :
           /\ Len(call.in.key) = Len(p) + 64
           /\ SubSeq(call.in.key, 1, Len(p)) = p
           /\ \A i \in (Len(p) + 1)..Len(call.in.key) :
                call.in.key[i] \in {"0", "1", "2", "3", "4", "5", "6", "7", "8", "9",
                                    "a", "b", "c", "d", "e", "f"}
    /\ call.in.from = "generated" => call.valid
    /\ ~call.valid => /\ call.out.status = 401
                      /\ call.out.error = "Invalid API key format"
                      /\ call.out.lookups = 0

\* C15 witness: a key of the right prefix and length whose last character
\* is the hex digit F was answered 401 without a lookup
C15_UpperCaseKeyRefused ==
  /\ call.fn = "authenticateApiKey" /\ call.done
  /\ Len(call.in.key) = 72 /\ SubSeq(call.in.key, 1, 8) = <<"v", "p", "_", "l", "i", "v", "e", "_">>
  /\ call.in.key[72] = "F"
  /\ call.out.status = 401 /\ call.out.lookups = 0

\* C16: the quota checks fail closed: for an organization that does not
\* exist or whose plan is not one of the known plans, canUploadVideo and
\* hasStorageCapacity return allowed=false with a non-empty reason: its
\* uploads never get past the first check, every answer to them is a 429
\* with the reason (or the 500 of a refused file), and no Video row of such
\* an organization is created.
C16_FailClosed ==
  \A o \in Orgs :
    (o \notin DOMAIN orgPlan \/ orgPlan[o] \notin {"free", "starter", "pro", "enterprise"}) =>
      /\ \A r \in Reqs : slots[r].kind = "upload" /\ slots[r].org = o =>
           /\ slots[r].pc \in {"canUpload", "done"}
           /\ slots[r].pc = "done" =>
                \/ slots[r].status = 429 /\ slots[r].reason \in {"Organization not found", "Invalid plan"}
                \/ slots[r].status = 500 /\ slots[r].reason = "Invalid file format"
      /\ \A v \in DOMAIN videos : videos[v].organizationId # o

\* C17: checkLimits returns withinLimits=true iff for each of the four
\* metrics the limit is -1 or the current value is strictly below the limit,
\* and it emits exactly one warning per metric that is at or over a limited
\* value.
C17_WithinLimits ==
  (call.fn = "checkLimits" /\ call.done) =>
    LET cur == call.in.current
        lim == call.in.limits
        over == {x \in {<<"videos", lim.videosPerMonth # -1 /\ cur.videosUploaded >= lim.videosPerMonth>>,
                        <<"minutes", lim.minutesPerMonth # -1 /\ cur.minutesProcessed >= lim.minutesPerMonth>>,
                        <<"storage", lim.storageGB # -1 /\ cur.storageUsedGB.g >= lim.storageGB>>,
                        <<"apiCalls", lim.apiCallsPerMonth # -1 /\ cur.apiCalls >= lim.apiCallsPerMonth>>} :
                   x[2]}
    IN /\ call.out.withinLimits <=> over = {}
       /\ Len(call.out.warnings) = Cardinality(over)

\* C19 as stated: after any interleaving of k ledger mutations of one
\* organization in one month, each counter is its initial value plus the
\* increments minus the decrements of all k mutations
C19_AllMutationsCounted ==
  (call.fn = "ledger" /\ \A p \in 1..MaxCalls : call.of[p].pc \in {"returned", "threw"}) =>
    LET n(k) == Cardinality({p \in 1..MaxCalls : call.of[p].kind = k})
        val(b) == IF b.g < 0 THEN b.b - GiB ELSE b.b
        u0 == IF usage0 = {} THEN NewUsage({}, "orgA", 1) ELSE CHOOSE u \in usage0 : TRUE
    IN \A u \in findUsage(usage, "orgA", 1) :
         /\ u.videosUploaded = u0.videosUploaded + n("upload") + n("minutes")
         /\ u.minutesProcessed = u0.minutesProcessed + n("minutes") * (CHOOSE d \in Durations : TRUE)
         /\ val(u.storageUsed) = val(u0.storageUsed)
              + (n("upload") - n("deletion")) * (CHOOSE s \in FileSizes : TRUE)
         /\ u.apiCalls = u0.apiCalls + n("apiCall")

\* C19: ledger mutations that return do not lose updates: after any
\* interleaving of k ledger mutations of one organization in one month, each
\* counter is its initial value plus the increments minus the decrements of
\* the mutations that returned; a mutation throws, applying nothing, only
\* when the month had no usage row at the start and another call created it
\* first, and at least one of the k mutations returns.
C19_ReturnedMutationsCounted ==
  (call.fn = "ledger" /\ \A p \in 1..MaxCalls : call.of[p].pc \in {"returned", "threw"}) =>
    LET n(k) == Cardinality({p \in 1..MaxCalls : call.of[p].kind = k /\ call.of[p].pc = "returned"})
        val(b) == IF b.g < 0 THEN b.b - GiB ELSE b.b
        u0 == IF usage0 = {} THEN NewUsage({}, "orgA", 1) ELSE CHOOSE u \in usage0 : TRUE
    IN /\ Cardinality(findUsage(usage, "orgA", 1)) = 1
       /\ \E p \in 1..MaxCalls : call.of[p].pc = "returned"
       /\ usage0 # {} => \A p \in 1..MaxCalls : call.of[p].pc = "returned"
       /\ \A u \in findUsage(usage, "orgA", 1) :
            /\ u.videosUploaded = u0.videosUploaded + n("upload") + n("minutes")
            /\ u.minutesProcessed = u0.minutesProcessed + n("minutes") * (CHOOSE d \in Durations : TRUE)
            /\ val(u.storageUsed) = val(u0.storageUsed)
                 + (n("upload") - n("deletion")) * (CHOOSE s \in FileSizes : TRUE)
            /\ u.apiCalls = u0.apiCalls + n("apiCall")

\* C19 witness: two uploads and a deletion all read the usage row at 9
\* uploads and 5 bytes before any of them wrote, and all returned: the row
\* is at 11 uploads and 6 bytes
C19_ThreeOnOneRead ==
  /\ call.fn = "ledger"
  /\ \A p \in 1..MaxCalls : call.of[p].pc = "returned" /\ call.of[p].read = usage0
  /\ \E p, q2 \in 1..MaxCalls : p # q2 /\ call.of[p].kind = "upload" /\ call.of[q2].kind = "upload"
  /\ \E p \in 1..MaxCalls : call.of[p].kind = "deletion"
  /\ \A u \in usage : u.videosUploaded = 11 /\ u.storageUsed = BigOf(6)

\* C21: within one video's run the external steps are strictly sequential:
\* probing starts only after the thumbnail was extracted, the encodes only
\* after both probes, the 1080p row exists only when the 720p row has
\* reached completed or failed, and at most one encode of a video is in
\* flight; the runs of different videos interleave freely.
C21_SequentialSteps ==
  \A v \in DOMAIN run :
    /\ run[v].pc \in {"probe", "setProcessing", "probe2", "track", "encode"} => <<v, "thumb">> \in files
    /\ run[v].pc = "encode" => run[v].probed /\ run[v].tracked
    /\ \A t \in rowsAt(transcoded, v, resolutions[2]) :
         \E t1 \in rowsAt(transcoded, v, resolutions[1]) : t1.status \in {"completed", "failed"}
    /\ Cardinality({t \in rowsOf(transcoded, v) : t.status = "processing"}) <= 1
    /\ Cardinality({t \in rowsOf(transcoded, v) : t.status = "processing"}) = 1 => run[v].pc = "encode"

\* C21 witness: the encodes of two videos are in flight together, one at
\* 720p and one at 1080p after its 720p row completed
C21_TwoEncodesInFlight ==
  \E v, w \in DOMAIN run :
    /\ v # w
    /\ run[v].pc = "encode" /\ run[v].res = 1
    /\ run[w].pc = "encode" /\ run[w].res = 2
    /\ \E t \in rowsAt(transcoded, w, resolutions[1]) : t.status = "completed"
    /\ \E t \in rowsAt(transcoded, w, resolutions[2]) : t.status = "processing"

\* C22: a run has no timeout.  When every external invocation and store
\* call returns, each run ends and its Video, if it still exists, is then
\* completed, failed or error.  While an encode has not returned the run
\* stays at that encode and the Video, if it still exists, is processing:
\* nothing but the return of the encode moves it out of processing.
C22_NoTimeout ==
  /\ \A v \in 1..MaxRaceVideos :
       (run[v].pc = "thumb") ~>
         (/\ run[v].pc \in {"ended", "rejected"}
          /\ v \in DOMAIN videos => videos[v].status \in {"completed", "failed", "error"})
  /\ [](\A v \in 1..MaxRaceVideos :
          (run[v].pc = "encode" /\ v \in DOMAIN videos) => videos[v].status = "processing")
  /\ [][\A v \in 1..MaxRaceVideos :
          (run[v].pc = "encode" /\ run'[v] # run[v]) =>
            \E ok \in BOOLEAN, size \in OutSizes : runEncode(v, ok, size)]_vars

\* C22 witness: the run of one video has ended completed while the 720p
\* encode of another has not returned and its Video is processing
C22_EncodeStillRunning ==
  \E v, w \in 1..MaxRaceVideos :
    /\ run[v].pc = "encode" /\ run[v].res = 1
    /\ v \in DOMAIN videos /\ videos[v].status = "processing"
    /\ run[w].pc = "ended" /\ w \in DOMAIN videos /\ videos[w].status = "completed"

\* C24: upload, processing and delete are a round trip on the storage
\* counter: when a video was uploaded, its run ended with both encodes
\* attempted, and it was deleted in the month of its upload, the
\* organization's storageUsed is what it was before the upload.
C24_StorageRoundTrip ==
  \A r \in Reqs :
    LET s == slots[r]
    IN (/\ s.kind = "delete" /\ s.pc = "done" /\ s.status = 200
        /\ month = 1
        /\ run[s.id].pc = "ended" /\ run[s.id].tracked /\ ~run[s.id].threw)
         => usageNow(usage, s.org, 1).storageUsed = usageNow(usage0, s.org, 1).storageUsed

\* C25: a Video whose status is completed has a TranscodedVideo row for
\* every configured resolution, none of them pending or processing: a
\* status read never shows completed before the transcoding has started or
\* while it is running.
C25_CompletedHasRows ==
  \A v \in DOMAIN videos :
    videos[v].status = "completed" =>
      \A i \in 1..Len(resolutions) :
        /\ rowsAt(transcoded, v, resolutions[i]) # {}
        /\ \A t \in rowsAt(transcoded, v, resolutions[i]) : t.status \notin {"pending", "processing"}

\* C26: when uploadVideo answers an error status no Video row exists for
\* that request, and every Video row has had its upload recorded and its
\* run started as soon as the handler is past its ledger write: no row
\* stays pending without a run.
C26_NoRowOnError ==
  /\ \A r \in Reqs :
       (slots[r].kind = "upload" /\ slots[r].pc = "done" /\ slots[r].status \in {400, 401, 429, 500})
         => slots[r].id \notin DOMAIN videos
  /\ \A v \in DOMAIN videos :
       run[v].pc = "none" => \E r \in Reqs : slots[r].pc = "trackCreate" /\ slots[r].id = v

\* C27: for every plan the limits canUploadVideo and hasStorageCapacity
\* enforce are the limits of that plan in the catalog the billing endpoints
\* report: an upload is allowed by canUploadVideo iff the reported
\* videosPerMonth is -1 or above the month's uploads, and by
\* hasStorageCapacity iff the reported storageGB is -1 or the new total does
\* not exceed it.
C27_SameLimits ==
  (call.fn = "quota" /\ call.done) =>
    LET shown == call.out.limits
    IN /\ shown = PLAN_LIMITS[call.in.plan]
       /\ call.out.canUpload <=>
            (shown.videosPerMonth = -1 \/ call.in.videosUploaded < shown.videosPerMonth)
       /\ call.out.hasStorage <=>
            (shown.storageGB = -1 \/ call.in.storageGiB < shown.storageGB)

C30_OneOwner ==
  /\ [](call.fn = "team" =>
          \A o \in Orgs :
            Cardinality({u \in call.users : u.organizationId = o /\ u.role = "owner"})
              = IF call.status[o] = "none" THEN 0 ELSE 1)
  /\ [][call.fn = "team" =>
          /\ \A u \in call.users : u.role = "owner" => u \in call'.users
          /\ \A u \in call'.users \ call.users :
               u.role = "owner" => call.status[u.organizationId] = "none"]_vars

\* an invited user's role was changed after the invite was accepted, and
\* another invited user was removed
C30_RoleChangedAndMemberRemoved ==
  /\ call.fn = "team"
  /\ \E i \in call.invites, u \in call.users :
       i.status = "accepted" /\ u.email = i.email /\ u.organizationId = i.organizationId
       /\ u.role # i.role
  /\ \E i \in call.invites : i.status = "accepted" /\ ~\E u \in call.users : u.email = i.email

\* C28: once a webhook has set an organization's status to suspended, no
\* upload, delete or read of its videos is accepted until a webhook sets
\* the status back to active: a request of the video router that arrives
\* while the organization of its credential is suspended is answered 401
\* or 403.
C28_SuspendedRefused ==
  [][\A r \in Reqs :
       (/\ call.fn = "team"
        /\ slots[r].pc = "idle"
        /\ slots'[r].pc # "idle"
        /\ slots'[r].kind \in {"upload", "delete", "read"}
        /\ call.status[slots'[r].org] = "suspended")
       => (slots'[r].pc = "done" /\ slots'[r].status \in {401, 403})]_vars

\* C29: an upload or delete request authenticated with the token of a user
\* whose role lacks video:upload or video:delete (a viewer) is refused with
\* 401 or 403, so that it creates or deletes no Video row.
C29_ViewerRefused ==
  call.fn = "team" =>
    \A r \in Reqs :
      (/\ slots[r].pc # "idle"
       /\ \/ slots[r].kind = "upload" /\ ~hasPermission(call.req[r].role, "video:upload")
          \/ slots[r].kind = "delete" /\ ~hasPermission(call.req[r].role, "video:delete"))
      => (slots[r].pc = "done" /\ slots[r].status \in {401, 403})

====
